---- MODULE Spec2Model ----
(***************************************************************************)
(* Model of internal/ipdata/processor.go: the Processor's cache, its       *)
(* RWMutex, the lookup GetIPListForCountry and the refresh                 *)
(* downloadAndProcessData, with the HTTP transport and the clock as the    *)
(* environment.                                                            *)
(*                                                                         *)
(* Strings are sequences of one-character strings, so that ToUpper, Split, *)
(* Atoi and Sprintf are computed character by character as the Go code     *)
(* computes them.                                                          *)
(***************************************************************************)
EXTENDS Integers, Sequences, FiniteSets, TLC

(***************************************************************************)
(* Bounds of the model.                                                    *)
(***************************************************************************)
\* number of goroutines calling GetIPListForCountry
NumProcs == 2
\* lookups started in one run, over all goroutines
MaxLookups == 2
\* the positive cache TTL of the model, in clock ticks
PosTTL == 1
\* clock ticks after the start of the run
MaxTicks == 1

Procs == 1..NumProcs
None == 0

(***************************************************************************)
(* Strings.                                                                *)
(***************************************************************************)
LowerLetters ==
  <<"a","b","c","d","e","f","g","h","i","j","k","l","m",
    "n","o","p","q","r","s","t","u","v","w","x","y","z">>
UpperLetters ==
  <<"A","B","C","D","E","F","G","H","I","J","K","L","M",
    "N","O","P","Q","R","S","T","U","V","W","X","Y","Z">>
Digits == <<"0","1","2","3","4","5","6","7","8","9">>
WhiteSpace == {" ", "\t", "\n", "\r"}

\* unicode.ToUpper on one (ASCII) character
UpperChar(c) ==
  IF \E i \in 1..26 : LowerLetters[i] = c
    THEN UpperLetters[CHOOSE i \in 1..26 : LowerLetters[i] = c]
    ELSE c

\* strings.ToUpper
ToUpper(s) == [i \in 1..Len(s) |-> UpperChar(s[i])]

\* strings.HasPrefix(line, "#")
HasHashPrefix(line) == Len(line) > 0 /\ line[1] = "#"

\* strings.TrimSpace(line) == ""
IsBlank(line) == \A i \in 1..Len(line) : line[i] \in WhiteSpace

\* index of the first occurrence of character c in s, 0 when there is none
IndexOf(s, c) ==
  IF \E i \in 1..Len(s) : s[i] = c
    THEN CHOOSE i \in 1..Len(s) : s[i] = c /\ \A j \in 1..(i-1) : s[j] # c
    ELSE 0

\* strings.Split(s, sep) for a one-character separator
RECURSIVE Split(_, _)
Split(s, sep) ==
  LET i == IndexOf(s, sep) IN
  IF i = 0 THEN <<s>>
  ELSE <<SubSeq(s, 1, i-1)>> \o Split(SubSeq(s, i+1, Len(s)), sep)

\* value of a decimal digit character, -1 for any other character
DigitVal(c) ==
  IF \E d \in 1..10 : Digits[d] = c
    THEN (CHOOSE d \in 1..10 : Digits[d] = c) - 1
    ELSE -1

\* Go's int is 64 bits wide and a count of a feed can exceed the integers of
\* the model checker: an integer a feed carries is kept as its sign and the
\* sequence of its decimal digits, most significant first, no leading zero
DigitSeq(s) == [i \in 1..Len(s) |-> DigitVal(s[i])]

RECURSIVE StripZeros(_)
StripZeros(m) == IF Len(m) > 1 /\ m[1] = 0 THEN StripZeros(Tail(m)) ELSE m

Zero == <<0>>

\* a < b for two digit sequences without leading zeros
NatLess(a, b) ==
  \/ Len(a) < Len(b)
  \/ /\ Len(a) = Len(b)
     /\ \E i \in 1..Len(a) : a[i] < b[i] /\ \A j \in 1..(i-1) : a[j] = b[j]

\* math.MaxInt64 and the magnitude of math.MinInt64
MaxInt64 == <<9,2,2,3,3,7,2,0,3,6,8,5,4,7,7,5,8,0,7>>
MinInt64Mag == <<9,2,2,3,3,7,2,0,3,6,8,5,4,7,7,5,8,0,8>>

\* strconv.Atoi: an optional sign, then one or more decimal digits; a value
\* outside the int64 range is an error
Atoi(s) ==
  LET signed == Len(s) > 0 /\ s[1] \in {"+", "-"}
      digits == IF signed THEN SubSeq(s, 2, Len(s)) ELSE s
      wellFormed == Len(digits) > 0 /\ \A i \in 1..Len(digits) : DigitVal(digits[i]) >= 0
      neg == signed /\ s[1] = "-"
      mag == StripZeros(DigitSeq(digits))
  IN IF ~wellFormed \/ NatLess(IF neg THEN MinInt64Mag ELSE MaxInt64, mag)
       THEN [ok |-> FALSE, neg |-> FALSE, mag |-> Zero]
       ELSE [ok |-> TRUE, neg |-> neg /\ mag # Zero, mag |-> mag]

\* the decimal text of a natural number
RECURSIVE NatText(_)
NatText(n) ==
  IF n < 10 THEN <<Digits[n+1]>>
  ELSE NatText(n \div 10) \o <<Digits[(n % 10) + 1]>>

\* the %d verb of fmt.Sprintf
Itoa(n) == IF n < 0 THEN <<"-">> \o NatText(0 - n) ELSE NatText(n)

\* bufio.ScanLines over the whole body: the lines between newlines, one
\* trailing carriage return dropped from each, no token after a final newline
RECURSIVE ScanLines(_)
ScanLines(data) ==
  LET DropCR(l) == IF Len(l) > 0 /\ l[Len(l)] = "\r" THEN SubSeq(l, 1, Len(l)-1) ELSE l
      i == IndexOf(data, "\n")
  IN IF Len(data) = 0 THEN <<>>
     ELSE IF i = 0 THEN <<DropCR(data)>>
     ELSE <<DropCR(SubSeq(data, 1, i-1))>> \o ScanLines(SubSeq(data, i+1, Len(data)))

(***************************************************************************)
(* The feed parser and the CIDR rendering of downloadAndProcessData.       *)
(***************************************************************************)
\* the literals of the Go source
RegistryTag == <<"r","i","p","e","n","c","c">>
FamilyTag == <<"i","p","v","4">>
MinFields == 6

\* half of a natural number, by long division of its decimal digits
Halve(m) ==
  StripZeros([i \in 1..Len(m) |->
                ((IF i = 1 THEN 0 ELSE 10 * (m[i-1] % 2)) + m[i]) \div 2])

\* the binary digits of a natural number, most significant first
RECURSIVE Bits(_)
Bits(m) == IF m = Zero THEN <<>> ELSE Bits(Halve(m)) \o <<m[Len(m)] % 2>>

AllOnes(b) == \A i \in 1..Len(b) : b[i] = 1
IsPowerOfTwo(b) == Len(b) > 0 /\ b[1] = 1 /\ \A i \in 2..Len(b) : b[i] = 0

\* b + 1 for binary digits b that are not all ones
Incr(b) ==
  LET j == CHOOSE k \in 1..Len(b) : b[k] = 0 /\ \A l \in (k+1)..Len(b) : b[l] = 1
  IN [i \in 1..Len(b) |-> IF i < j THEN b[i] ELSE IF i = j THEN 1 ELSE 0]

\* the width of the significand of a float64
SignificandBits == 53

\* float64(count) of a positive count with binary digits b: the significand
\* (at most 53 binary digits, rounded to nearest, ties to even) and the
\* number of binary digits of the value
Float64(b) ==
  IF Len(b) <= SignificandBits THEN [sig |-> b, len |-> Len(b)]
  ELSE LET top == SubSeq(b, 1, SignificandBits)
           rest == SubSeq(b, SignificandBits + 1, Len(b))
           up == rest[1] = 1 /\ (top[SignificandBits] = 1 \/ \E i \in 2..Len(rest) : rest[i] = 1)
       IN IF ~up THEN [sig |-> top, len |-> Len(b)]
          ELSE IF AllOnes(top) THEN [sig |-> <<1>>, len |-> Len(b) + 1]
          ELSE [sig |-> Incr(top), len |-> Len(b)]

\* the value of the complement of a few binary digits
RECURSIVE ComplementVal(_)
ComplementVal(b) ==
  IF Len(b) = 0 THEN 0
  ELSE 2 * ComplementVal(SubSeq(b, 1, Len(b)-1)) + (1 - b[Len(b)])

\* int(math.Log2(x)) of a positive float64 x.  math.Log2 is exp-1 when
\* Frexp gives the fraction 0.5 (a power of two), and otherwise the float64
\* sum Log(frac)*(1/Ln2) + exp.  The sum is below the integer exp by
\* d/(2^w * ln 2), d being the distance of the w-digit significand from 2^w;
\* it rounds to exp itself when that is less than half the spacing 2^-47 of
\* the float64s below exp (33 <= exp <= 64), which takes w >= 49 and
\* 1000 * d < 693 * 2^(w-48); then the truncation yields exp, not exp-1.
Log2Trunc(x) ==
  LET w == Len(x.sig)
      low == IF w > 5 THEN SubSeq(x.sig, w - 4, w) ELSE x.sig
      high == IF w > 5 THEN SubSeq(x.sig, 1, w - 5) ELSE <<>>
  IN IF IsPowerOfTwo(x.sig) THEN x.len - 1
     ELSE IF /\ w >= 49
             /\ AllOnes(high)
             /\ 1000 * (ComplementVal(low) + 1) < 693 * 2^(w - 48)
       THEN x.len
     ELSE x.len - 1

\* What int(math.Log2(float64(count))) yields for a count that is not
\* positive is implementation-dependent in Go (Log2 is -Inf for 0 and NaN
\* below 0): amd64 gives the minimum int64 in both cases, arm64 saturates
\* -Inf to the minimum int64 and turns NaN into 0.
FloatToInt == {"amd64", "arm64"}

\* 32 - MinInt64 wraps around to MinInt64 + 32
WrappedMaskText == <<"-","9","2","2","3","3","7","2","0","3","6","8","5","4","7","7","5","7","7","6">>

\* the decimal text of mask := 32 - int(math.Log2(float64(count)))
MaskText(count, conv) ==
  IF ~count.neg /\ count.mag # Zero THEN Itoa(32 - Log2Trunc(Float64(Bits(count.mag))))
  ELSE IF count.neg /\ conv = "arm64" THEN Itoa(32 - 0)
  ELSE WrappedMaskText

\* faulty variant: the registry of a line is not looked at
ParseLineAnyRegistry(line, conv) ==
  IF HasHashPrefix(line) \/ IsBlank(line) THEN <<>>
  ELSE LET parts == Split(line, "|") IN
    IF Len(parts) < MinFields THEN <<>>
    ELSE IF ~(parts[3] = FamilyTag) THEN <<>>
    ELSE LET count == Atoi(parts[5]) IN
      IF ~count.ok THEN <<>>
      ELSE << [Country |-> ToUpper(parts[2]),
               IPStart |-> parts[4],
               Count |-> [neg |-> count.neg, mag |-> count.mag],
               CIDRMask |-> MaskText(count, conv)] >>

\* faulty variant: a count that does not parse is taken as 0
ParseLineZeroCount(line, conv) ==
  IF HasHashPrefix(line) \/ IsBlank(line) THEN <<>>
  ELSE LET parts == Split(line, "|") IN
    IF Len(parts) < MinFields THEN <<>>
    ELSE IF ~(parts[1] = RegistryTag /\ parts[3] = FamilyTag) THEN <<>>
    ELSE LET count == Atoi(parts[5]) IN
      IF ~count.ok
        THEN << [Country |-> ToUpper(parts[2]),
                 IPStart |-> parts[4],
                 Count |-> [neg |-> FALSE, mag |-> Zero],
                 CIDRMask |-> WrappedMaskText] >>
      ELSE << [Country |-> ToUpper(parts[2]),
               IPStart |-> parts[4],
               Count |-> [neg |-> count.neg, mag |-> count.mag],
               CIDRMask |-> MaskText(count, conv)] >>

\* faulty variant: a line of 5 fields is long enough
ParseLineFiveFields(line, conv) ==
  IF HasHashPrefix(line) \/ IsBlank(line) THEN <<>>
  ELSE LET parts == Split(line, "|") IN
    IF Len(parts) < MinFields - 1 THEN <<>>
    ELSE IF ~(parts[1] = RegistryTag /\ parts[3] = FamilyTag) THEN <<>>
    ELSE LET count == Atoi(parts[5]) IN
      IF ~count.ok THEN <<>>
      ELSE << [Country |-> ToUpper(parts[2]),
               IPStart |-> parts[4],
               Count |-> [neg |-> count.neg, mag |-> count.mag],
               CIDRMask |-> MaskText(count, conv)] >>

\* one scanned line: the record it contributes (a sequence of zero or one
\* IPData; CIDRMask is kept as its decimal text)
ParseLine(line, conv) ==
  IF HasHashPrefix(line) \/ IsBlank(line) THEN <<>>
  ELSE LET parts == Split(line, "|") IN
    IF Len(parts) < MinFields THEN <<>>
    ELSE IF ~(parts[1] = RegistryTag /\ parts[3] = FamilyTag) THEN <<>>
    ELSE LET count == Atoi(parts[5]) IN
      IF ~count.ok THEN <<>>
      ELSE << [Country |-> ToUpper(parts[2]),
               IPStart |-> parts[4],
               Count |-> [neg |-> count.neg, mag |-> count.mag],
               CIDRMask |-> MaskText(count, conv)] >>

\* faulty variant: the record is put in front of the country's records
AppendToPrepends(m, rec) ==
  [c \in (DOMAIN m) \cup {rec.Country} |->
     IF c = rec.Country
       THEN <<rec>> \o (IF c \in DOMAIN m THEN m[c] ELSE <<>>)
       ELSE m[c]]

\* ipDataByCountry[country] = append(ipDataByCountry[country], rec)
AppendTo(m, rec) ==
  [c \in (DOMAIN m) \cup {rec.Country} |->
     IF c = rec.Country
       THEN (IF c \in DOMAIN m THEN m[c] ELSE <<>>) \o <<rec>>
       ELSE m[c]]

EmptyMap == [c \in {} |-> <<>>]

\* the scanner loop: ipDataByCountry after the lines, in feed order
RECURSIVE ParseLines(_, _, _)
ParseLines(lines, conv, m) ==
  IF Len(lines) = 0 THEN m
  ELSE LET recs == ParseLine(Head(lines), conv) IN
       ParseLines(Tail(lines), conv,
                  IF Len(recs) = 0 THEN m ELSE AppendTo(m, recs[1]))

\* cidr := fmt.Sprintf("%s/%d", ipData.IPStart, ipData.CIDRMask)
CIDRString(ipData) == ipData.IPStart \o <<"/">> \o ipData.CIDRMask

\* newCache: every country's records rendered as CIDR strings, in order
BuildCache(byCountry) ==
  [c \in DOMAIN byCountry |->
     [i \in 1..Len(byCountry[c]) |-> CIDRString(byCountry[c][i])]]

\* the snapshot a readable body yields
ParseFeed(data, conv) == BuildCache(ParseLines(ScanLines(data), conv, EmptyMap))

(***************************************************************************)
(* The feeds the transport of the model can serve.                         *)
(***************************************************************************)
FeedA == <<"r","i","p","e","n","c","c","|","U","S","|","i","p","v","4","|","1",".","0",".","0",".","0","|","2","5","6","|","d","|","a","\n","r","i","p","e","n","c","c","|","U","S","|","i","p","v","4","|","3",".","0",".","0",".","0","|","5","1","2","|","d","|","a","\n","r","i","p","e","n","c","c","|","d","e","|","i","p","v","4","|","2",".","0",".","0",".","0","|","3","|","d","|","a","\n">>
FeedB == <<"#"," ","c","\n","\n","b","a","d","|","l","i","n","e","\n","a","p","n","i","c","|","U","S","|","i","p","v","4","|","4",".","0",".","0",".","0","|","8","|","d","|","a","\n","r","i","p","e","n","c","c","|","U","S","|","i","p","v","6","|","2","0","0","1",":",":","|","1","|","d","|","a","\n","r","i","p","e","n","c","c","|","D","E","|","i","p","v","4","|","1","0",".","0",".","0",".","0","|","x","|","d","|","a","\n","r","i","p","e","n","c","c","|","D","E","|","i","p","v","4","|","1","0",".","0",".","0",".","0","|","6","5","5","3","6","|","d","|","a">>
FeedEmpty == <<>>
Feeds == {FeedA, FeedB, FeedEmpty}

\* country codes: CodeUs and CodeXX as callers pass them, CodeDE as a key of
\* the cache
CodeUs == <<"u","s">>
CodeDE == <<"D","E">>
CodeXX == <<"X","X">>
LookupCodes == {CodeUs, CodeXX}

\* scanner.Text() over the feeds of the model, computed once
Lines == [f \in Feeds |-> ScanLines(f)]

\* ParseFeed over the feeds of the model, computed once
Parsed == [f \in Feeds, conv \in FloatToInt |-> ParseFeed(f, conv)]

(***************************************************************************)
(* The transport (HTTPClient.Do) and the clock.                            *)
(***************************************************************************)
StatusOK == 200
\* the non-200 statuses the transport of the model answers with
OtherStatuses == {204, 500}
\* downloadTimeout, in clock ticks
DownloadTimeout == 1
\* the clock reading at the start of the run; the zero time.Time is 0, and
\* time.Since(time.Time{}) exceeds every TTL
StartTime == PosTTL + 1
ZeroTime == 0
TTLs == {0, PosTTL}

\* the transports a processor can have: http.DefaultClient, the clients a
\* caller passes in, and the nil of a processor that is not constructed
NoClient == "nil"
DefaultClient == "http.DefaultClient"
MockClient == "mock"
OtherClient == "other mock"
GivenClients == {MockClient, OtherClient}

\* CacheDuration: "1h" of NewConfig
DefaultCacheDuration == <<"1","h">>
\* ServerPort: "8080" of NewConfig; NoPort where no configuration is read
DefaultServerPort == "8080"
NoPort == ""

\* the environment variables and the flags of the Config struct tags; a
\* variable or flag is the set of its value, empty when it is not set
EnvNames == {"SERVER_PORT", "AUTH_TOKEN", "CACHE_DURATION", "PORT"}
FlagNames == {"--port", "--auth-token", "--cache-duration"}
NoEnviron == [n \in EnvNames |-> {}]
NoArgs == [f \in FlagNames |-> {}]

NoResp == [kind |-> "none", cause |-> "", status |-> 0, body |-> <<>>, readErr |-> FALSE]
TransportError(cause) ==
  [kind |-> "error", cause |-> cause, status |-> 0, body |-> <<>>, readErr |-> FALSE]
Response(status, data, readErr) ==
  [kind |-> "response", cause |-> "", status |-> status, body |-> data, readErr |-> readErr]

\* what Do can answer when the request was sent `elapsed` ticks ago: the
\* deadline of the request context fails it once downloadTimeout has elapsed;
\* a body is read to its end, or its reader fails at once or after the
\* lines of FeedA;
\* a response with another status has a body too
Answers(elapsed) ==
  {TransportError("connection refused")}
  \cup (IF elapsed >= DownloadTimeout
          THEN {TransportError("context deadline exceeded")} ELSE {})
  \cup {Response(st, FeedA, FALSE) : st \in OtherStatuses}
  \cup {Response(StatusOK, f, FALSE) : f \in Feeds}
  \cup {Response(StatusOK, f, TRUE) : f \in {FeedA, FeedEmpty}}

(***************************************************************************)
(* Errors are their message chains: fmt.Errorf("msg: %w", err) puts msg in *)
(* front of the chain of err.                                              *)
(***************************************************************************)
NoErr == <<>>
Errorf(msg, cause) == <<msg>> \o cause

(***************************************************************************)
(* State.                                                                  *)
(***************************************************************************)
VARIABLES
  cache,        \* Processor.cache: country code -> list of CIDR strings
  cacheTime,    \* Processor.cacheTime
  cacheTTL,     \* Processor.cacheTTL
  ripeURL,      \* the package variable ripeURL: "valid" or "malformed"
  writer,       \* Processor.mutex: the goroutine holding Lock, or None
  readers,      \* Processor.mutex: the goroutines holding RLock
  now,          \* the clock read by time.Since and time.Now
  callCount,    \* the transport's count of calls of Do (MockHTTPClient.CallCount)
  lastFetch,    \* the transport's record of the latest call: when, and how it ended
  pc,           \* where each goroutine is in GetIPListForCountry
  countryCode,  \* the (upper-cased) parameter of the running lookup
  newCache,     \* the local newCache of downloadAndProcessData
  ret,          \* the latest return of GetIPListForCountry, with its history
  lookups,      \* lookups started so far
  failures,     \* history: refreshes that returned an error so far
  installed,    \* history: the last (cache, cacheTime) pair a refresh completed
  mine,         \* history: calls of Do made by the running lookup
  got,          \* history: the status of the response Do returned to the lookup
  seen,         \* history: what the lookup saw at its first check under RLock
  before,       \* history: (cache, cacheTime) when the refresh took Lock
  atCall,       \* history: (cache, cacheTime) at the call of a lookup that runs alone
  arg,          \* history: the argument each running lookup was called with
  waited,       \* history: the lookup was blocked on Lock when a refresh timed out
  observed,     \* history: what the lookup found at its check under Lock
  heap,         \* the map objects in memory and the references to them
  generation,   \* history: how often p.cache was assigned, and by which refresh
  CacheDuration, \* cfg.CacheDuration, the text of the configured cache duration
  ServerPort,   \* cfg.ServerPort of main, "" before main has read its configuration
  environ,      \* the environment variables of the process
  osArgs,       \* os.Args[1:], the flags of the command line
  httpClient,   \* p.httpClient, the transport of the processor
  AuthToken,    \* cfg.AuthToken of the handler
  request,      \* the request each goroutine of the server is handling
  response,     \* the latest response of getIpListHandler, with its request
  body,         \* resp.Body of the response of the latest call of Do
  unwound,      \* the deferred calls the latest return of the refresh ran, in order
  scanner,      \* the lines of the body that scanner.Scan() has yet to return
  ipDataByCountry, \* the map of the scanner loop of the refresh in progress
  feed          \* history: the lines of the last body the scanner read to its end

vars == <<cache, cacheTime, cacheTTL, ripeURL, writer, readers, now, callCount,
          lastFetch, pc, countryCode, newCache, ret, lookups, failures,
          installed, mine, got, seen, before, atCall, arg, waited, observed,
          heap, generation, CacheDuration, ServerPort, environ, osArgs, httpClient,
          AuthToken, request, response, body, unwound,
          scanner, ipDataByCountry, feed>>

Snap == [cache |-> cache, cacheTime |-> cacheTime]
NoSnap == [cache |-> EmptyMap, cacheTime |-> -1]
NoFetch == [at |-> -1, outcome |-> "none", by |-> NoClient]

\* faulty variant: a cache whose age equals the TTL counts as fresh
FreshInclusive == now - cacheTime <= cacheTTL

\* time.Since(p.cacheTime) < p.cacheTTL
Fresh == now - cacheTime < cacheTTL

\* ipList, ok := p.cache[code]
Present(code) == code \in DOMAIN cache
Entry(m, code) == IF code \in DOMAIN m THEN m[code] ELSE <<>>

Running(p) == pc[p] # "idle"

\* The heap: objects maps the address of each map[string][]string that is
\* still referenced to its contents (the lists are part of the object that
\* holds them); cache is the address p.cache refers to, local[p] the address
\* the variable newCache of the refresh of p refers to.  NilAddr is no
\* address.  ret.at is the address of the map that holds the list the last
\* lookup returned.
NilAddr == 0

\* cache: make(map[string][]string) of the constructor
InitHeap ==
  [objects |-> [a \in {1} |-> EmptyMap], cache |-> 1, local |-> [p \in Procs |-> NilAddr]]

\* the address of a new object: one that no object in use has
NewAddr(h) ==
  CHOOSE a \in 1..(Cardinality(DOMAIN h.objects) + 1) :
    a \notin DOMAIN h.objects /\ \A b \in 1..(a - 1) : b \in DOMAIN h.objects

\* the objects that are still referenced, by p.cache, by a local newCache
\* or by the caller that holds the list of address kept
Collect(h, kept) ==
  [h EXCEPT !.objects =
     [a \in DOMAIN h.objects \cap ({h.cache, kept} \cup {h.local[q] : q \in Procs}) |->
        h.objects[a]]]

\* faulty variant: the refresh empties the map p.cache refers to and fills it
MakeInPlace(h, p, m) ==
  [objects |-> [h.objects EXCEPT ![h.cache] = m],
   cache |-> h.cache,
   local |-> [h.local EXCEPT ![p] = h.cache]]

\* newCache := make(map[string][]string), filled with new lists
\* (cidrList := make([]string, 0, len(ipDataList))) up to the contents m
Make(h, p, m) ==
  [objects |-> [a \in DOMAIN h.objects \cup {NewAddr(h)} |->
                  IF a = NewAddr(h) THEN m ELSE h.objects[a]],
   cache |-> h.cache,
   local |-> [h.local EXCEPT ![p] = NewAddr(h)]]

\* generation.current counts the assignments p.cache = newCache so far;
\* generation.made[p] is its value after the assignment of the refresh of
\* the running lookup of p, 0 when that lookup has assigned nothing
NoGeneration == [current |-> 0, made |-> [p \in Procs |-> 0]]

\* p.cache = newCache
Assign(h, p, kept) ==
  Collect([h EXCEPT !.cache = h.local[p], !.local[p] = NilAddr], kept)

\* cfg.AuthToken: empty (no authentication), or the token of the tests
NoToken == ""
TestToken == "test-token"
WrongToken == "wrong-token"

\* a request as getIpListHandler reads it: r.Method and the first values of
\* the query parameters country and auth, empty when the parameter is missing
Request(method, country, auth) == [method |-> method, country |-> country, auth |-> auth]
NoRequest == Request("", <<>>, "")

\* what the handler wrote: the status, the Content-Type header, the message
\* of http.Error or the bytes of the body, the request it answers, and
\* whether the handler called the processor for it; lines is the list the
\* body was written from
NoResponse ==
  [status |-> 0, contentType |-> "", message |-> <<>>, lines |-> <<>>,
   body |-> <<>>, to |-> NoRequest, invoked |-> FALSE]

\* resp.Body: no response in hand, or the body open or closed, with the
\* number of calls of Close on it
NoBody == [state |-> "none", closes |-> 0]
OpenBody == [state |-> "open", closes |-> 0]
\* resp.Body.Close()
Close(b) == [state |-> "closed", closes |-> b.closes + 1]

\* the deferred calls of downloadAndProcessData, in the order of their
\* defer statements
DeferUnlock == "p.mutex.Unlock()"
DeferCancel == "cancel()"
DeferClose == "resp.Body.Close()"
\* the defer statements the refresh has passed when Do has answered r:
\* defer resp.Body.Close() follows the check of the error of Do
DefersAfterDo(r) ==
  IF r.kind = "response"
    THEN <<DeferUnlock, DeferCancel, DeferClose>>
    ELSE <<DeferUnlock, DeferCancel>>
\* a function returns: its deferred calls run last-in first-out
Unwind(stack) == [i \in 1..Len(stack) |-> stack[Len(stack) + 1 - i]]

\* A return of GetIPListForCountry: kind "ok" is (list, nil), kind "err" is
\* (nil, err).  refreshErr is what downloadAndProcessData returned; the
\* other fields are the history of the lookup that returned; entry is the
\* country's entry in the last completed (cache, cacheTime) pair when the
\* list was read.
NoRet ==
  [kind |-> "none", list |-> <<>>, err |-> NoErr, refreshErr |-> NoErr,
   code |-> <<>>, entry |-> <<>>, mine |-> 0, got |-> 0, seen |-> "none",
   atCall |-> NoSnap, arg |-> <<>>, waited |-> FALSE, observed |-> "none",
   at |-> NilAddr, gen |-> 0, made |-> 0]

\* A processor after its construction, with the TTL (in clock ticks) and
\* the transport that the tests of the package give it: an empty cache and
\* the zero time
Init ==
  /\ cache = EmptyMap
  /\ cacheTime = ZeroTime
  /\ cacheTTL \in TTLs
  /\ ripeURL \in {"valid", "malformed"}
  /\ CacheDuration = DefaultCacheDuration
  /\ ServerPort = NoPort
  /\ environ = NoEnviron
  /\ osArgs = NoArgs
  /\ httpClient = MockClient
  /\ writer = None
  /\ readers = {}
  /\ now = StartTime
  /\ callCount = 0
  /\ lastFetch = NoFetch
  /\ pc = [p \in Procs |-> "idle"]
  /\ countryCode = [p \in Procs |-> <<>>]
  /\ newCache = [p \in Procs |-> EmptyMap]
  /\ ret = NoRet
  /\ lookups = 0
  /\ failures = 0
  /\ installed = [cache |-> EmptyMap, cacheTime |-> ZeroTime]
  /\ mine = [p \in Procs |-> 0]
  /\ got = [p \in Procs |-> 0]
  /\ seen = [p \in Procs |-> "none"]
  /\ before = [p \in Procs |-> NoSnap]
  /\ atCall = [p \in Procs |-> NoSnap]
  /\ arg = [p \in Procs |-> <<>>]
  /\ waited = [p \in Procs |-> FALSE]
  /\ observed = [p \in Procs |-> "none"]
  /\ heap = InitHeap
  /\ generation = NoGeneration
  /\ AuthToken = NoToken
  /\ request = [p \in Procs |-> NoRequest]
  /\ response = NoResponse
  /\ body = NoBody
  /\ unwound = <<>>
  /\ scanner = <<>>
  /\ ipDataByCountry = EmptyMap
  /\ feed = <<>>

(***************************************************************************)
(* GetIPListForCountry.                                                    *)
(***************************************************************************)
config == <<cacheTTL, ripeURL, CacheDuration, ServerPort, environ, osArgs, httpClient>>
handler == <<AuthToken, request, response>>
stream == <<body, unwound>>
mutex == <<writer, readers>>
transport == <<callCount, lastFetch>>
history == <<mine, got, seen, before, atCall, arg, waited, observed>>
scanLoop == <<scanner, ipDataByCountry>>

\* the error of a request that ran into the deadline of its context
TimedOut(e) == e = Errorf("failed to download data", <<"context deadline exceeded">>)

\* the address of the map that holds the list a lookup returns: that of
\* p.cache for ipList of p.cache[countryCode], none for []string{} and nil
ListAt(p, kind) ==
  IF kind = "ok" /\ Present(countryCode[p]) THEN heap.cache ELSE NilAddr

\* the lookup of p returns: its locals are gone
Return(p, kind, list, e, refreshErr, sawNow, gotNow) ==
  /\ ret' = [kind |-> kind, list |-> list, err |-> e, refreshErr |-> refreshErr,
             code |-> countryCode[p],
             entry |-> IF kind = "ok" THEN Entry(installed.cache, countryCode[p]) ELSE <<>>,
             mine |-> mine[p], got |-> gotNow,
             seen |-> sawNow, atCall |-> atCall[p], arg |-> arg[p],
             waited |-> waited[p], observed |-> observed[p],
             at |-> ListAt(p, kind),
             gen |-> generation.current, made |-> generation.made[p]]
  /\ heap' = Collect(heap, ListAt(p, kind))
  /\ generation' = [generation EXCEPT !.made[p] = 0]
  /\ failures' = IF kind = "err" THEN failures + 1 ELSE failures
  /\ pc' = [pc EXCEPT ![p] = "idle"]
  /\ countryCode' = [countryCode EXCEPT ![p] = <<>>]
  /\ mine' = [mine EXCEPT ![p] = 0]
  /\ got' = [got EXCEPT ![p] = 0]
  /\ seen' = [seen EXCEPT ![p] = "none"]
  /\ before' = [before EXCEPT ![p] = NoSnap]
  /\ atCall' = [atCall EXCEPT ![p] = NoSnap]
  /\ arg' = [arg EXCEPT ![p] = <<>>]
  /\ waited' = [q \in Procs |->
                  IF q = p THEN FALSE
                  ELSE waited[q] \/ (TimedOut(refreshErr) /\ pc[q] = "lock")]
  /\ observed' = [observed EXCEPT ![p] = "none"]

\* return ipList, nil
ReturnList(p, list, sawNow) == Return(p, "ok", list, NoErr, NoErr, sawNow, got[p])

\* faulty variant: the error return serves the stale entry of the country
ReturnErrorStaleFallback(p, e, gotNow) ==
  Return(p, "err", Entry(cache, countryCode[p]),
         Errorf("failed to download and process data", e), e, seen[p], gotNow)

\* return nil, fmt.Errorf("failed to download and process data: %w", err)
ReturnError(p, e, gotNow) ==
  Return(p, "err", <<>>, Errorf("failed to download and process data", e), e,
         seen[p], gotNow)

\* faulty variant: the argument is looked up in the case it was given in
CallKeepsCase(p, code) ==
  /\ httpClient # NoClient
  /\ request[p] = NoRequest
  /\ pc[p] = "idle"
  /\ lookups < MaxLookups
  /\ pc' = [pc EXCEPT ![p] = "rlock1"]
  /\ countryCode' = [countryCode EXCEPT ![p] = code]
  /\ arg' = [arg EXCEPT ![p] = code]
  /\ lookups' = lookups + 1
  /\ atCall' = [q \in Procs |->
                  IF q = p /\ (\A r \in Procs \ {p} : ~Running(r)) THEN Snap ELSE NoSnap]
  /\ ret' = [ret EXCEPT !.atCall = NoSnap]
  /\ UNCHANGED <<cache, cacheTime, config, handler, stream, heap, generation, scanLoop, feed, mutex, now, transport, newCache,
                 failures, installed, mine, got, seen, before, waited, observed>>

\* a goroutine calls GetIPListForCountry(code); countryCode = ToUpper(code)
Call(p, code) ==
  /\ httpClient # NoClient
  /\ request[p] = NoRequest
  /\ pc[p] = "idle"
  /\ lookups < MaxLookups
  /\ pc' = [pc EXCEPT ![p] = "rlock1"]
  /\ countryCode' = [countryCode EXCEPT ![p] = ToUpper(code)]
  /\ arg' = [arg EXCEPT ![p] = code]
  /\ lookups' = lookups + 1
  /\ atCall' = [q \in Procs |->
                  IF q = p /\ (\A r \in Procs \ {p} : ~Running(r)) THEN Snap ELSE NoSnap]
  /\ ret' = [ret EXCEPT !.atCall = NoSnap]
  /\ UNCHANGED <<cache, cacheTime, config, handler, stream, heap, generation, scanLoop, feed, mutex, now, transport, newCache,
                 failures, installed, mine, got, seen, before, waited, observed>>

\* p.mutex.RLock() of the first check
RLock1(p) ==
  /\ pc[p] = "rlock1"
  /\ writer = None
  /\ readers' = readers \cup {p}
  /\ pc' = [pc EXCEPT ![p] = "check1"]
  /\ UNCHANGED <<cache, cacheTime, config, handler, stream, heap, generation, scanLoop, feed, writer, now, transport,
                 countryCode, newCache, ret, lookups, failures, installed, history>>

\* what the check under RLock finds
Look(code) ==
  IF ~Fresh THEN "stale" ELSE IF Present(code) THEN "hit" ELSE "absent"

\* faulty variant: no fast path, every lookup goes on to downloadAndProcessData
Check1NoFastPath(p) ==
  /\ pc[p] = "check1"
  /\ readers' = readers \ {p}
  /\ pc' = [pc EXCEPT ![p] = "lock"]
  /\ seen' = [seen EXCEPT ![p] = Look(countryCode[p])]
  /\ UNCHANGED <<ret, failures, countryCode, mine, got, before, atCall, arg, waited, observed>>
  /\ UNCHANGED <<cache, cacheTime, config, handler, stream, heap, generation, scanLoop, feed, writer, now, transport,
                 newCache, lookups, installed>>

\* faulty variant: the check under RLock does not look at the age of the cache
Check1IgnoresAge(p) ==
  /\ pc[p] = "check1"
  /\ readers' = readers \ {p}
  /\ IF Present(countryCode[p])
       THEN ReturnList(p, cache[countryCode[p]], Look(countryCode[p]))
       ELSE /\ pc' = [pc EXCEPT ![p] = "lock"]
            /\ seen' = [seen EXCEPT ![p] = Look(countryCode[p])]
            /\ UNCHANGED <<heap, generation, ret, failures, countryCode, mine, got, before, atCall, arg, waited, observed>>
  /\ UNCHANGED <<cache, cacheTime, config, handler, stream, scanLoop, feed, writer, now, transport,
                 newCache, lookups, installed>>

\* faulty variant: a processor that was never refreshed counts as fresh
Check1ZeroTimeIsFresh(p) ==
  /\ pc[p] = "check1"
  /\ readers' = readers \ {p}
  /\ IF (Fresh /\ Present(countryCode[p])) \/ cacheTime = ZeroTime
       THEN ReturnList(p, Entry(cache, countryCode[p]), Look(countryCode[p]))
       ELSE /\ pc' = [pc EXCEPT ![p] = "lock"]
            /\ seen' = [seen EXCEPT ![p] = Look(countryCode[p])]
            /\ UNCHANGED <<heap, generation, ret, failures, countryCode, mine, got, before, atCall, arg, waited, observed>>
  /\ UNCHANGED <<cache, cacheTime, config, handler, stream, scanLoop, feed, writer, now, transport,
                 newCache, lookups, installed>>

\* the check under RLock: a hit returns the cached list; a stale cache or
\* an absent country falls through to downloadAndProcessData
Check1(p) ==
  /\ pc[p] = "check1"
  /\ readers' = readers \ {p}
  /\ IF Fresh /\ Present(countryCode[p])
       THEN ReturnList(p, cache[countryCode[p]], Look(countryCode[p]))
       ELSE /\ pc' = [pc EXCEPT ![p] = "lock"]
            /\ seen' = [seen EXCEPT ![p] = Look(countryCode[p])]
            /\ UNCHANGED <<heap, generation, ret, failures, countryCode, mine, got, before, atCall, arg, waited, observed>>
  /\ UNCHANGED <<cache, cacheTime, config, handler, stream, scanLoop, feed, writer, now, transport,
                 newCache, lookups, installed>>

\* faulty variant: the second check does not wait for the writer
RLock2IgnoresWriter(p) ==
  /\ pc[p] = "rlock2"
  /\ readers' = readers \cup {p}
  /\ pc' = [pc EXCEPT ![p] = "check2"]
  /\ UNCHANGED <<cache, cacheTime, config, handler, stream, heap, generation, scanLoop, feed, writer, now, transport,
                 countryCode, newCache, ret, lookups, failures, installed, history>>

\* p.mutex.RLock() of the second check
RLock2(p) ==
  /\ pc[p] = "rlock2"
  /\ writer = None
  /\ readers' = readers \cup {p}
  /\ pc' = [pc EXCEPT ![p] = "check2"]
  /\ UNCHANGED <<cache, cacheTime, config, handler, stream, heap, generation, scanLoop, feed, writer, now, transport,
                 countryCode, newCache, ret, lookups, failures, installed, history>>

\* faulty variant: a country that is not in the cache is reported as an error
Check2NotFoundIsError(p) ==
  /\ pc[p] = "check2"
  /\ readers' = readers \ {p}
  /\ IF Present(countryCode[p])
       THEN ReturnList(p, cache[countryCode[p]], seen[p])
       ELSE Return(p, "err", <<>>, <<"country not found">>, NoErr, seen[p], got[p])
  /\ UNCHANGED <<cache, cacheTime, config, handler, stream, scanLoop, feed, writer, now, transport,
                 newCache, lookups, installed>>

\* the check after the refresh: the country's list, or an empty list
Check2(p) ==
  /\ pc[p] = "check2"
  /\ readers' = readers \ {p}
  /\ IF Present(countryCode[p])
       THEN ReturnList(p, cache[countryCode[p]], seen[p])
       ELSE ReturnList(p, <<>>, seen[p])
  /\ UNCHANGED <<cache, cacheTime, config, handler, stream, scanLoop, feed, writer, now, transport,
                 newCache, lookups, installed>>

(***************************************************************************)
(* downloadAndProcessData.  The deferred p.mutex.Unlock() is part of every *)
(* step that returns; an error return goes on to the error return of the   *)
(* lookup, which touches nothing shared, in the same step.                 *)
(***************************************************************************)
\* faulty variant: Lock does not wait for the holder of the write lock
LockNoExclusion(p) ==
  /\ pc[p] = "lock"
  /\ readers = {}
  /\ writer' = p
  /\ before' = [before EXCEPT ![p] = Snap]
  /\ pc' = [pc EXCEPT ![p] = "recheck"]
  /\ UNCHANGED <<cache, cacheTime, config, handler, stream, heap, generation, scanLoop, feed, readers, now, transport,
                 countryCode, newCache, ret, lookups, failures, installed,
                 mine, got, seen, atCall, arg, waited, observed>>

\* p.mutex.Lock()
Lock(p) ==
  /\ pc[p] = "lock"
  /\ writer = None
  /\ readers = {}
  /\ writer' = p
  /\ before' = [before EXCEPT ![p] = Snap]
  /\ pc' = [pc EXCEPT ![p] = "recheck"]
  /\ UNCHANGED <<cache, cacheTime, config, handler, stream, heap, generation, scanLoop, feed, readers, now, transport,
                 countryCode, newCache, ret, lookups, failures, installed,
                 mine, got, seen, atCall, arg, waited, observed>>

\* http.NewRequestWithContext(ctx, GET, ripeURL, nil): its error, if any
NewRequestError ==
  IF ripeURL = "malformed"
    THEN Errorf("failed to create request", <<"parse error">>) ELSE NoErr

\* what the condition time.Since(p.cacheTime) < p.cacheTTL evaluates to
Observation == IF Fresh THEN "fresh" ELSE "stale"

\* faulty variant: no second check of the staleness under the write lock
RecheckNoDoubleCheck(p) ==
  /\ pc[p] = "recheck"
  /\ body' = body
  /\ unwound' = IF NewRequestError # NoErr THEN Unwind(<<DeferUnlock, DeferCancel>>)
                 ELSE unwound
  /\ IF NewRequestError # NoErr
       THEN /\ writer' = None
            /\ ReturnError(p, NewRequestError, got[p])
       ELSE /\ pc' = [pc EXCEPT ![p] = "do"]
            /\ UNCHANGED <<heap, generation, writer, ret, failures, countryCode, history>>
  /\ UNCHANGED <<cache, cacheTime, config, handler, scanLoop, feed, readers, now, transport,
                 newCache, lookups, installed>>

\* faulty variant: after a failed refresh no further refresh is attempted
RecheckBacksOff(p) ==
  /\ pc[p] = "recheck"
  /\ body' = body
  /\ unwound' = IF Fresh \/ failures > 0 THEN Unwind(<<DeferUnlock>>)
                 ELSE IF NewRequestError # NoErr THEN Unwind(<<DeferUnlock, DeferCancel>>)
                 ELSE unwound
  /\ IF Fresh \/ failures > 0
       THEN /\ writer' = None
            /\ before' = [before EXCEPT ![p] = NoSnap]
            /\ pc' = [pc EXCEPT ![p] = "rlock2"]
            /\ observed' = [observed EXCEPT ![p] = Observation]
            /\ UNCHANGED <<heap, generation, ret, failures, countryCode, mine, got, seen, atCall, arg, waited>>
       ELSE IF NewRequestError # NoErr
         THEN /\ writer' = None
              /\ ReturnError(p, NewRequestError, got[p])
         ELSE /\ pc' = [pc EXCEPT ![p] = "do"]
              /\ observed' = [observed EXCEPT ![p] = Observation]
              /\ UNCHANGED <<heap, generation, writer, ret, failures, countryCode,
                             mine, got, seen, before, atCall, arg, waited>>
  /\ UNCHANGED <<cache, cacheTime, config, handler, scanLoop, feed, readers, now, transport,
                 newCache, lookups, installed>>

\* faulty variant: a lookup that waited for a refresh that failed returns
\* the error of that refresh
RecheckSharesError(p) ==
  /\ pc[p] = "recheck"
  /\ body' = body
  /\ unwound' = IF Fresh THEN Unwind(<<DeferUnlock>>)
                 ELSE IF NewRequestError # NoErr \/ (lastFetch.outcome = "failed" /\ ret.kind = "err")
                   THEN Unwind(<<DeferUnlock, DeferCancel>>)
                 ELSE unwound
  /\ IF Fresh
       THEN /\ writer' = None
            /\ before' = [before EXCEPT ![p] = NoSnap]
            /\ pc' = [pc EXCEPT ![p] = "rlock2"]
            /\ observed' = [observed EXCEPT ![p] = Observation]
            /\ UNCHANGED <<heap, generation, ret, failures, countryCode, mine, got, seen, atCall, arg, waited>>
       ELSE IF NewRequestError # NoErr
         THEN /\ writer' = None
              /\ ReturnError(p, NewRequestError, got[p])
       ELSE IF lastFetch.outcome = "failed" /\ ret.kind = "err"
         THEN /\ writer' = None
              /\ ReturnError(p, ret.refreshErr, ret.got)
         ELSE /\ pc' = [pc EXCEPT ![p] = "do"]
              /\ observed' = [observed EXCEPT ![p] = Observation]
              /\ UNCHANGED <<heap, generation, writer, ret, failures, countryCode,
                             mine, got, seen, before, atCall, arg, waited>>
  /\ UNCHANGED <<cache, cacheTime, config, handler, scanLoop, feed, readers, now, transport,
                 newCache, lookups, installed>>

\* faulty variant: the return on a request-construction error keeps the
\* write lock
RecheckKeepsLockOnError(p) ==
  /\ pc[p] = "recheck"
  /\ body' = body
  /\ unwound' = IF Fresh THEN Unwind(<<DeferUnlock>>)
                 ELSE IF NewRequestError # NoErr THEN Unwind(<<DeferUnlock, DeferCancel>>)
                 ELSE unwound
  /\ IF Fresh
       THEN /\ writer' = None
            /\ before' = [before EXCEPT ![p] = NoSnap]
            /\ pc' = [pc EXCEPT ![p] = "rlock2"]
            /\ observed' = [observed EXCEPT ![p] = Observation]
            /\ UNCHANGED <<heap, generation, ret, failures, countryCode, mine, got, seen, atCall, arg, waited>>
       ELSE IF NewRequestError # NoErr
         THEN /\ writer' = writer
              /\ ReturnError(p, NewRequestError, got[p])
         ELSE /\ pc' = [pc EXCEPT ![p] = "do"]
              /\ observed' = [observed EXCEPT ![p] = Observation]
              /\ UNCHANGED <<heap, generation, writer, ret, failures, countryCode,
                             mine, got, seen, before, atCall, arg, waited>>
  /\ UNCHANGED <<cache, cacheTime, config, handler, scanLoop, feed, readers, now, transport,
                 newCache, lookups, installed>>

\* the check after obtaining the write lock, and the request construction
Recheck(p) ==
  /\ pc[p] = "recheck"
  /\ body' = body
  /\ unwound' = IF Fresh THEN Unwind(<<DeferUnlock>>)
                 ELSE IF NewRequestError # NoErr THEN Unwind(<<DeferUnlock, DeferCancel>>)
                 ELSE unwound
  /\ IF Fresh
       THEN /\ writer' = None
            /\ before' = [before EXCEPT ![p] = NoSnap]
            /\ pc' = [pc EXCEPT ![p] = "rlock2"]
            /\ observed' = [observed EXCEPT ![p] = Observation]
            /\ UNCHANGED <<heap, generation, ret, failures, countryCode, mine, got, seen, atCall, arg, waited>>
       ELSE IF NewRequestError # NoErr
         THEN /\ writer' = None
              /\ ReturnError(p, NewRequestError, got[p])
         ELSE /\ pc' = [pc EXCEPT ![p] = "do"]
              /\ observed' = [observed EXCEPT ![p] = Observation]
              /\ UNCHANGED <<heap, generation, writer, ret, failures, countryCode,
                             mine, got, seen, before, atCall, arg, waited>>
  /\ UNCHANGED <<cache, cacheTime, config, handler, scanLoop, feed, readers, now, transport,
                 newCache, lookups, installed>>

\* faulty variant: the request is sent a second time
DoRetries(p) ==
  /\ pc[p] = "do"
  /\ body' = NoBody
  /\ heap' = heap
  /\ generation' = generation
  /\ unwound' = unwound
  /\ callCount' = callCount + 2
  /\ lastFetch' = [at |-> now, outcome |-> "pending", by |-> httpClient]
  /\ mine' = [mine EXCEPT ![p] = @ + 2]
  /\ pc' = [pc EXCEPT ![p] = "await"]
  /\ UNCHANGED <<cache, cacheTime, config, handler, scanLoop, feed, mutex, now,
                 countryCode, newCache, ret, lookups, failures, installed,
                 got, seen, before, atCall, arg, waited, observed>>

\* p.httpClient.Do(req) is called: the transport counts the call
Do(p) ==
  /\ pc[p] = "do"
  /\ body' = NoBody
  /\ heap' = heap
  /\ generation' = generation
  /\ unwound' = unwound
  /\ callCount' = callCount + 1
  /\ lastFetch' = [at |-> now, outcome |-> "pending", by |-> httpClient]
  /\ mine' = [mine EXCEPT ![p] = @ + 1]
  /\ pc' = [pc EXCEPT ![p] = "await"]
  /\ UNCHANGED <<cache, cacheTime, config, handler, scanLoop, feed, mutex, now,
                 countryCode, newCache, ret, lookups, failures, installed,
                 got, seen, before, atCall, arg, waited, observed>>

\* the float conversions that can make a difference to what the code makes
\* of the answer r: newCache is built only from a 200 response read to its
\* end
Conversions(r) ==
  IF r.kind = "error" \/ r.status # StatusOK \/ r.readErr
    THEN {CHOOSE conv \in FloatToInt : TRUE}
    ELSE FloatToInt

\* faulty variant: every 2xx status is taken as success
ProcessAccepts2xx(r, conv) ==
  IF r.kind = "error"
    THEN [err |-> Errorf("failed to download data", <<r.cause>>), newCache |-> EmptyMap]
  ELSE IF r.status \notin 200..299
    THEN [err |-> <<"received non-200 response", ToString(r.status)>>,
          newCache |-> EmptyMap]
  ELSE IF r.readErr
    THEN [err |-> Errorf("error reading response", <<"read error">>),
          newCache |-> EmptyMap]
  ELSE [err |-> NoErr, newCache |-> Parsed[r.body, conv]]

\* faulty variant: a read failure is reported as a failed download
ProcessOneMessage(r, conv) ==
  IF r.kind = "error"
    THEN [err |-> Errorf("failed to download data", <<r.cause>>), newCache |-> EmptyMap]
  ELSE IF r.status # StatusOK
    THEN [err |-> <<"received non-200 response", ToString(r.status)>>,
          newCache |-> EmptyMap]
  ELSE IF r.readErr
    THEN [err |-> Errorf("failed to download data", <<"read error">>),
          newCache |-> EmptyMap]
  ELSE [err |-> NoErr, newCache |-> Parsed[r.body, conv]]

\* what the code makes of the answer r of Do: the error it returns, or the
\* newCache it builds (the status check, the scanner loop, scanner.Err()
\* and the conversion)
Process(r, conv) ==
  IF r.kind = "error"
    THEN [err |-> Errorf("failed to download data", <<r.cause>>), newCache |-> EmptyMap]
  ELSE IF r.status # StatusOK
    THEN [err |-> <<"received non-200 response", ToString(r.status)>>,
          newCache |-> EmptyMap]
  ELSE IF r.readErr
    THEN [err |-> Errorf("error reading response", <<"read error">>),
          newCache |-> EmptyMap]
  ELSE [err |-> NoErr, newCache |-> Parsed[r.body, conv]]

\* faulty variant: the refresh that timed out keeps the write lock
ReceiveHoldsLockOnTimeout(p) ==
  /\ pc[p] = "await"
  /\ \E r \in Answers(now - lastFetch.at) : \E conv \in Conversions(r) :
       LET res == Process(r, conv) IN
       IF res.err # NoErr
         THEN /\ writer' = IF TimedOut(res.err) THEN writer ELSE None
              /\ ReturnError(p, res.err, r.status)
              /\ lastFetch' = [lastFetch EXCEPT !.outcome = "failed"]
              /\ newCache' = newCache
              /\ feed' = feed
              /\ body' = IF r.kind = "response" THEN Close(OpenBody) ELSE NoBody
              /\ unwound' = Unwind(DefersAfterDo(r))
         ELSE /\ newCache' = [newCache EXCEPT ![p] = res.newCache]
              /\ heap' = Make(heap, p, res.newCache)
              /\ generation' = generation
              /\ feed' = Lines[r.body]
              /\ body' = OpenBody
              /\ unwound' = unwound
              /\ got' = [got EXCEPT ![p] = r.status]
              /\ pc' = [pc EXCEPT ![p] = "setcache"]
              /\ UNCHANGED <<writer, lastFetch, ret, failures, countryCode,
                             mine, seen, before, atCall, arg, waited, observed>>
  /\ UNCHANGED <<cache, cacheTime, config, handler, scanLoop, readers, now, callCount,
                 lookups, installed>>

\* faulty variant: a failed refresh sets the time of the cache
ReceiveStampsFailure(p) ==
  /\ pc[p] = "await"
  /\ \E r \in Answers(now - lastFetch.at) : \E conv \in Conversions(r) :
       LET res == Process(r, conv) IN
       IF res.err # NoErr
         THEN /\ writer' = None
              /\ ReturnError(p, res.err, r.status)
              /\ lastFetch' = [lastFetch EXCEPT !.outcome = "failed"]
              /\ newCache' = newCache
              /\ feed' = feed
              /\ body' = IF r.kind = "response" THEN Close(OpenBody) ELSE NoBody
              /\ unwound' = Unwind(DefersAfterDo(r))
              /\ cacheTime' = now
         ELSE /\ newCache' = [newCache EXCEPT ![p] = res.newCache]
              /\ heap' = Make(heap, p, res.newCache)
              /\ generation' = generation
              /\ feed' = Lines[r.body]
              /\ body' = OpenBody
              /\ unwound' = unwound
              /\ got' = [got EXCEPT ![p] = r.status]
              /\ pc' = [pc EXCEPT ![p] = "setcache"]
              /\ UNCHANGED <<writer, lastFetch, ret, failures, countryCode,
                             mine, seen, before, atCall, arg, waited, observed, cacheTime>>
  /\ UNCHANGED <<cache, config, handler, scanLoop, readers, now, callCount,
                 lookups, installed>>

\* faulty variant: a failed refresh empties the cache
ReceiveDropsCache(p) ==
  /\ pc[p] = "await"
  /\ \E r \in Answers(now - lastFetch.at) : \E conv \in Conversions(r) :
       LET res == Process(r, conv) IN
       IF res.err # NoErr
         THEN /\ writer' = None
              /\ ReturnError(p, res.err, r.status)
              /\ lastFetch' = [lastFetch EXCEPT !.outcome = "failed"]
              /\ newCache' = newCache
              /\ feed' = feed
              /\ body' = IF r.kind = "response" THEN Close(OpenBody) ELSE NoBody
              /\ unwound' = Unwind(DefersAfterDo(r))
              /\ cache' = EmptyMap
         ELSE /\ newCache' = [newCache EXCEPT ![p] = res.newCache]
              /\ heap' = Make(heap, p, res.newCache)
              /\ generation' = generation
              /\ feed' = Lines[r.body]
              /\ body' = OpenBody
              /\ unwound' = unwound
              /\ got' = [got EXCEPT ![p] = r.status]
              /\ pc' = [pc EXCEPT ![p] = "setcache"]
              /\ UNCHANGED <<writer, lastFetch, ret, failures, countryCode,
                             mine, seen, before, atCall, arg, waited, observed, cache>>
  /\ UNCHANGED <<cacheTime, config, handler, scanLoop, readers, now, callCount,
                 lookups, installed>>

\* faulty variant: the records scanned before a read error are installed
ReceiveInstallsPartial(p) ==
  /\ pc[p] = "await"
  /\ \E r \in Answers(now - lastFetch.at) : \E conv \in Conversions(r) :
       LET res == Process(r, conv) IN
       IF res.err # NoErr
         THEN /\ writer' = None
              /\ ReturnError(p, res.err, r.status)
              /\ lastFetch' = [lastFetch EXCEPT !.outcome = "failed"]
              /\ newCache' = newCache
              /\ feed' = feed
              /\ body' = IF r.kind = "response" THEN Close(OpenBody) ELSE NoBody
              /\ unwound' = Unwind(DefersAfterDo(r))
              /\ cache' = IF r.readErr THEN Parsed[r.body, conv] ELSE cache
         ELSE /\ newCache' = [newCache EXCEPT ![p] = res.newCache]
              /\ heap' = Make(heap, p, res.newCache)
              /\ generation' = generation
              /\ feed' = Lines[r.body]
              /\ body' = OpenBody
              /\ unwound' = unwound
              /\ got' = [got EXCEPT ![p] = r.status]
              /\ pc' = [pc EXCEPT ![p] = "setcache"]
              /\ UNCHANGED <<writer, lastFetch, ret, failures, countryCode,
                             mine, seen, before, atCall, arg, waited, observed, cache>>
  /\ UNCHANGED <<cacheTime, config, handler, scanLoop, readers, now, callCount,
                 lookups, installed>>

\* faulty variant: the status is checked before defer resp.Body.Close()
ReceiveLeaksBody(p) ==
  /\ pc[p] = "await"
  /\ \E r \in Answers(now - lastFetch.at) : \E conv \in Conversions(r) :
       LET res == Process(r, conv) IN
       IF res.err # NoErr
         THEN /\ writer' = None
              /\ ReturnError(p, res.err, r.status)
              /\ lastFetch' = [lastFetch EXCEPT !.outcome = "failed"]
              /\ newCache' = newCache
              /\ feed' = feed
              /\ body' = IF r.kind # "response" THEN NoBody
                         ELSE IF r.status # StatusOK THEN OpenBody ELSE Close(OpenBody)
              /\ unwound' = IF r.kind = "response" /\ r.status # StatusOK
                              THEN Unwind(<<DeferUnlock, DeferCancel>>)
                              ELSE Unwind(DefersAfterDo(r))
         ELSE /\ newCache' = [newCache EXCEPT ![p] = res.newCache]
              /\ heap' = Make(heap, p, res.newCache)
              /\ generation' = generation
              /\ feed' = Lines[r.body]
              /\ body' = OpenBody
              /\ unwound' = unwound
              /\ got' = [got EXCEPT ![p] = r.status]
              /\ pc' = [pc EXCEPT ![p] = "setcache"]
              /\ UNCHANGED <<writer, lastFetch, ret, failures, countryCode,
                             mine, seen, before, atCall, arg, waited, observed>>
  /\ UNCHANGED <<cache, cacheTime, config, handler, scanLoop, readers, now, callCount,
                 lookups, installed>>

\* Do returns and the response is processed up to the cache update
Receive(p) ==
  /\ pc[p] = "await"
  /\ \E r \in Answers(now - lastFetch.at) : \E conv \in Conversions(r) :
       LET res == Process(r, conv) IN
       IF res.err # NoErr
         THEN /\ writer' = None
              /\ ReturnError(p, res.err, r.status)
              /\ lastFetch' = [lastFetch EXCEPT !.outcome = "failed"]
              /\ newCache' = newCache
              /\ feed' = feed
              /\ body' = IF r.kind = "response" THEN Close(OpenBody) ELSE NoBody
              /\ unwound' = Unwind(DefersAfterDo(r))
         ELSE /\ newCache' = [newCache EXCEPT ![p] = res.newCache]
              /\ heap' = Make(heap, p, res.newCache)
              /\ generation' = generation
              /\ feed' = Lines[r.body]
              /\ body' = OpenBody
              /\ unwound' = unwound
              /\ got' = [got EXCEPT ![p] = r.status]
              /\ pc' = [pc EXCEPT ![p] = "setcache"]
              /\ UNCHANGED <<writer, lastFetch, ret, failures, countryCode,
                             mine, seen, before, atCall, arg, waited, observed>>
  /\ UNCHANGED <<cache, cacheTime, config, handler, scanLoop, readers, now, callCount,
                 lookups, installed>>

\* faulty variant: the new entries are written over the previous snapshot
SetCacheMerges(p) ==
  /\ pc[p] = "setcache"
  /\ cache' = [c \in DOMAIN cache \cup DOMAIN newCache[p] |->
                 IF c \in DOMAIN newCache[p] THEN newCache[p][c] ELSE cache[c]]
  /\ newCache' = [newCache EXCEPT ![p] = EmptyMap]
  /\ heap' = [heap EXCEPT !.objects[heap.cache] = cache', !.local[p] = NilAddr]
  /\ generation' = [current |-> generation.current + 1,
                     made |-> [generation.made EXCEPT ![p] = generation.current + 1]]
  /\ pc' = [pc EXCEPT ![p] = "settime"]
  /\ UNCHANGED <<cacheTime, config, handler, stream, scanLoop, feed, mutex, now, transport,
                 countryCode, ret, lookups, failures, installed, history>>

\* p.cache = newCache
SetCache(p) ==
  /\ pc[p] = "setcache"
  /\ cache' = newCache[p]
  /\ heap' = Assign(heap, p, ret.at)
  /\ generation' = [current |-> generation.current + 1,
                     made |-> [generation.made EXCEPT ![p] = generation.current + 1]]
  /\ newCache' = [newCache EXCEPT ![p] = EmptyMap]
  /\ pc' = [pc EXCEPT ![p] = "settime"]
  /\ UNCHANGED <<cacheTime, config, handler, stream, scanLoop, feed, mutex, now, transport,
                 countryCode, ret, lookups, failures, installed, history>>

\* faulty variant: the timestamp of the cache is not updated
SetTimeForgets(p) ==
  /\ pc[p] = "settime"
  /\ body' = Close(body)
  /\ heap' = heap
  /\ generation' = generation
  /\ unwound' = Unwind(<<DeferUnlock, DeferCancel, DeferClose>>)
  /\ cacheTime' = cacheTime
  /\ installed' = [cache |-> cache, cacheTime |-> cacheTime]
  /\ lastFetch' = [lastFetch EXCEPT !.outcome = "ok"]
  /\ writer' = None
  /\ before' = [before EXCEPT ![p] = NoSnap]
  /\ observed' = [observed EXCEPT ![p] = "installed"]
  /\ pc' = [pc EXCEPT ![p] = "rlock2"]
  /\ UNCHANGED <<cache, config, handler, scanLoop, feed, readers, now, callCount,
                 countryCode, newCache, ret, lookups, failures,
                 mine, got, seen, atCall, arg, waited>>

\* p.cacheTime = time.Now(); return nil
SetTime(p) ==
  /\ pc[p] = "settime"
  /\ body' = Close(body)
  /\ heap' = heap
  /\ generation' = generation
  /\ unwound' = Unwind(<<DeferUnlock, DeferCancel, DeferClose>>)
  /\ cacheTime' = now
  /\ installed' = [cache |-> cache, cacheTime |-> now]
  /\ lastFetch' = [lastFetch EXCEPT !.outcome = "ok"]
  /\ writer' = None
  /\ before' = [before EXCEPT ![p] = NoSnap]
  /\ observed' = [observed EXCEPT ![p] = "installed"]
  /\ pc' = [pc EXCEPT ![p] = "rlock2"]
  /\ UNCHANGED <<cache, config, handler, scanLoop, feed, readers, now, callCount,
                 countryCode, newCache, ret, lookups, failures,
                 mine, got, seen, atCall, arg, waited>>

\* faulty variant: a timer refreshes the cache when its TTL has elapsed
TickRefreshes ==
  /\ now < StartTime + MaxTicks
  /\ now' = now + 1
  /\ IF writer = None /\ readers = {} /\ cacheTime # ZeroTime /\ now + 1 - cacheTime >= cacheTTL
       THEN /\ callCount' = callCount + 1
            /\ lastFetch' = [at |-> now + 1, outcome |-> "ok", by |-> httpClient]
            /\ cacheTime' = now + 1
       ELSE UNCHANGED <<transport, cacheTime>>
  /\ UNCHANGED <<cache, config, handler, stream, heap, generation, scanLoop, feed, mutex, pc,
                 countryCode, newCache, ret, lookups, failures, installed, history>>

\* the clock advances
Tick ==
  /\ now < StartTime + MaxTicks
  /\ now' = now + 1
  /\ UNCHANGED <<cache, cacheTime, config, handler, stream, heap, generation, scanLoop, feed, mutex, transport, pc,
                 countryCode, newCache, ret, lookups, failures, installed, history>>

Next ==
  \/ \E p \in Procs, code \in LookupCodes : Call(p, code)
  \/ \E p \in Procs : RLock1(p)
  \/ \E p \in Procs : Check1(p)
  \/ \E p \in Procs : Lock(p)
  \/ \E p \in Procs : Recheck(p)
  \/ \E p \in Procs : Do(p)
  \/ \E p \in Procs : Receive(p)
  \/ \E p \in Procs : SetCache(p)
  \/ \E p \in Procs : SetTime(p)
  \/ \E p \in Procs : RLock2(p)
  \/ \E p \in Procs : Check2(p)
  \/ Tick

Spec == Init /\ [][Next]_vars

\* a step of a lookup in progress: the scheduler runs a goroutine that can
\* run, the mutex admits a goroutine it can admit, and a call of Do returns
Progress ==
  \E p \in Procs :
    \/ RLock1(p) \/ Check1(p) \/ Lock(p) \/ Recheck(p) \/ Do(p) \/ Receive(p)
    \/ SetCache(p) \/ SetTime(p) \/ RLock2(p) \/ Check2(p)

\* the lookups of a run during which the clock stands still
FairNext ==
  \/ \E p \in Procs, code \in LookupCodes : Call(p, code)
  \/ \E p \in Procs : RLock1(p)
  \/ \E p \in Procs : Check1(p)
  \/ \E p \in Procs : Lock(p)
  \/ \E p \in Procs : Recheck(p)
  \/ \E p \in Procs : Do(p)
  \/ \E p \in Procs : Receive(p)
  \/ \E p \in Procs : SetCache(p)
  \/ \E p \in Procs : SetTime(p)
  \/ \E p \in Procs : RLock2(p)
  \/ \E p \in Procs : Check2(p)

\* the processor with goroutines that are not held up for ever
FairSpec == Init /\ [][FairNext]_vars /\ WF_vars(Progress)

\* A processor whose TTL is zero or negative, as the test of the package
\* that sets cacheTTL to 0 and a CACHE_DURATION such as "-1h" give it
NonPositiveTTLs == {0 - PosTTL, 0}

NeverFreshInit ==
  /\ cache = EmptyMap
  /\ cacheTime = ZeroTime
  /\ cacheTTL \in NonPositiveTTLs
  /\ ripeURL \in {"valid", "malformed"}
  /\ CacheDuration = DefaultCacheDuration
  /\ ServerPort = NoPort
  /\ environ = NoEnviron
  /\ osArgs = NoArgs
  /\ httpClient = MockClient
  /\ writer = None
  /\ readers = {}
  /\ now = StartTime
  /\ callCount = 0
  /\ lastFetch = NoFetch
  /\ pc = [p \in Procs |-> "idle"]
  /\ countryCode = [p \in Procs |-> <<>>]
  /\ newCache = [p \in Procs |-> EmptyMap]
  /\ ret = NoRet
  /\ lookups = 0
  /\ failures = 0
  /\ installed = [cache |-> EmptyMap, cacheTime |-> ZeroTime]
  /\ mine = [p \in Procs |-> 0]
  /\ got = [p \in Procs |-> 0]
  /\ seen = [p \in Procs |-> "none"]
  /\ before = [p \in Procs |-> NoSnap]
  /\ atCall = [p \in Procs |-> NoSnap]
  /\ arg = [p \in Procs |-> <<>>]
  /\ waited = [p \in Procs |-> FALSE]
  /\ observed = [p \in Procs |-> "none"]
  /\ heap = InitHeap
  /\ generation = NoGeneration
  /\ AuthToken = NoToken
  /\ request = [p \in Procs |-> NoRequest]
  /\ response = NoResponse
  /\ body = NoBody
  /\ unwound = <<>>
  /\ scanner = <<>>
  /\ ipDataByCountry = EmptyMap
  /\ feed = <<>>

NeverFreshSpec == NeverFreshInit /\ [][Next]_vars

(***************************************************************************)
(* The scanner loop of downloadAndProcessData, line by line.               *)
(***************************************************************************)
\* lines in a body, in the model of the scanner loop
MaxLines == 3

\* the lines a body of that model is made of
\* an allocation of 256 addresses, 7 fields
LineUS == <<"r","i","p","e","n","c","c","|","U","S","|","i","p","v","4","|","1",".","0",".","0",".","0","|","2","5","6","|","d","|","a">>
\* lower-case country, 6 fields, a count that is no power of two
LineUsLower == <<"r","i","p","e","n","c","c","|","u","s","|","i","p","v","4","|","2",".","0",".","0",".","0","|","3","|","d">>
\* another registry
LineApnic == <<"a","p","n","i","c","|","U","S","|","i","p","v","4","|","4",".","0",".","0",".","0","|","8","|","d">>
\* another address family
LineIPv6 == <<"r","i","p","e","n","c","c","|","U","S","|","i","p","v","6","|","2","0","0","1",":",":","|","1","|","d">>
\* a count that is no integer
LineBadCount == <<"r","i","p","e","n","c","c","|","D","E","|","i","p","v","4","|","5",".","0",".","0",".","0","|","x","|","d">>
\* the summary line of the extended delegation format
LineSummary == <<"r","i","p","e","n","c","c","|","*","|","i","p","v","4","|","*","|","7","1","8","0","0","|","s","u","m","m","a","r","y">>
\* a record without a country
LineNoCountry == <<"r","i","p","e","n","c","c","|","|","i","p","v","4","|","8",".","0",".","0",".","0","|","1","|","d">>
\* a comment
LineComment == <<"#"," ","c">>
\* white space only
LineBlank == <<" ","\t">>
\* an empty line
LineEmpty == <<>>
\* 5 fields
LineShort == <<"r","i","p","e","n","c","c","|","U","S","|","i","p","v","4","|","9",".","0",".","0",".","0","|","2","5","6">>
LinePool ==
  {LineUS, LineUsLower, LineApnic, LineIPv6,
   LineBadCount, LineSummary, LineNoCountry, LineComment,
   LineBlank, LineEmpty, LineShort}

\* count fields: not positive, powers of two, between powers of two, above
\* 2^32, signed, outside int64 and empty
CountTexts ==
  {<<"0">>,
   <<"-","4">>,
   <<"-","0">>,
   <<"1">>,
   <<"2">>,
   <<"3">>,
   <<"2","5","5">>,
   <<"2","5","6">>,
   <<"2","5","7">>,
   <<"6","5","5","3","6">>,
   <<"1","6","7","7","7","2","1","6">>,
   <<"4","2","9","4","9","6","7","2","9","5">>,
   <<"4","2","9","4","9","6","7","2","9","6">>,
   <<"8","5","8","9","9","3","4","5","9","2">>,
   <<"1","1","2","5","8","9","9","9","0","6","8","4","2","6","2","3">>,
   <<"+","8">>,
   <<"9","2","2","3","3","7","2","0","3","6","8","5","4","7","7","5","8","0","8">>,
   <<>>}

\* a ripencc ipv4 line with the count field t
CountLine(t) == <<"r","i","p","e","n","c","c","|","D","E","|","i","p","v","4","|","6",".","0",".","0",".","0","|">> \o t \o <<"|","d">>

\* the bodies of the model, as the lines the scanner returns
ScanFeeds ==
  UNION {[1..n -> LinePool] : n \in 0..MaxLines}
  \cup {<<CountLine(t)>> : t \in CountTexts}

\* The first refresh of a new processor has received a 200 response: the
\* lookup of goroutine 1 found the cache stale, holds the write lock and
\* starts the scanner on the body.
ScanInit ==
  /\ cache = EmptyMap
  /\ cacheTime = ZeroTime
  /\ cacheTTL = PosTTL
  /\ ripeURL = "valid"
  /\ CacheDuration = DefaultCacheDuration
  /\ ServerPort = NoPort
  /\ environ = NoEnviron
  /\ osArgs = NoArgs
  /\ httpClient = MockClient
  /\ writer = 1
  /\ readers = {}
  /\ now = StartTime
  /\ callCount = 1
  /\ lastFetch = [at |-> StartTime, outcome |-> "pending", by |-> MockClient]
  /\ pc = [p \in Procs |-> IF p = 1 THEN "scan" ELSE "idle"]
  /\ \E code \in LookupCodes :
       /\ countryCode = [p \in Procs |-> IF p = 1 THEN ToUpper(code) ELSE <<>>]
       /\ arg = [p \in Procs |-> IF p = 1 THEN code ELSE <<>>]
  /\ waited = [p \in Procs |-> FALSE]
  /\ observed = [p \in Procs |-> IF p = 1 THEN "stale" ELSE "none"]
  /\ heap = InitHeap
  /\ generation = NoGeneration
  /\ AuthToken = NoToken
  /\ request = [p \in Procs |-> NoRequest]
  /\ response = NoResponse
  /\ body = OpenBody
  /\ unwound = <<>>
  /\ newCache = [p \in Procs |-> EmptyMap]
  /\ ret = NoRet
  /\ lookups = 1
  /\ failures = 0
  /\ installed = [cache |-> EmptyMap, cacheTime |-> ZeroTime]
  /\ mine = [p \in Procs |-> IF p = 1 THEN 1 ELSE 0]
  /\ got = [p \in Procs |-> IF p = 1 THEN StatusOK ELSE 0]
  /\ seen = [p \in Procs |-> IF p = 1 THEN "stale" ELSE "none"]
  /\ before = [p \in Procs |->
                 IF p = 1 THEN [cache |-> EmptyMap, cacheTime |-> ZeroTime] ELSE NoSnap]
  /\ atCall = [p \in Procs |->
                 IF p = 1 THEN [cache |-> EmptyMap, cacheTime |-> ZeroTime] ELSE NoSnap]
  /\ feed \in ScanFeeds
  /\ scanner = feed
  /\ ipDataByCountry = EmptyMap

\* one iteration of for scanner.Scan() { ... }
Scan(p) ==
  /\ pc[p] = "scan"
  /\ scanner # <<>>
  /\ \E conv \in FloatToInt :
       LET recs == ParseLine(Head(scanner), conv) IN
       ipDataByCountry' =
         IF Len(recs) = 0 THEN ipDataByCountry ELSE AppendTo(ipDataByCountry, recs[1])
  /\ scanner' = Tail(scanner)
  /\ UNCHANGED <<cache, cacheTime, config, handler, stream, heap, generation, feed, mutex, now, transport, pc,
                 countryCode, newCache, ret, lookups, failures, installed, history>>

\* scanner.Scan() returns false with a nil scanner.Err(): newCache is built
Convert(p) ==
  /\ pc[p] = "scan"
  /\ scanner = <<>>
  /\ newCache' = [newCache EXCEPT ![p] = BuildCache(ipDataByCountry)]
  /\ ipDataByCountry' = EmptyMap
  /\ heap' = Make(heap, p, BuildCache(ipDataByCountry))
  /\ generation' = generation
  /\ pc' = [pc EXCEPT ![p] = "setcache"]
  /\ UNCHANGED <<cache, cacheTime, config, handler, stream, scanner, feed, mutex, now, transport,
                 countryCode, ret, lookups, failures, installed, history>>

ScanNext ==
  \/ \E p \in Procs : Scan(p)
  \/ \E p \in Procs : Convert(p)
  \/ \E p \in Procs : SetCache(p)
  \/ \E p \in Procs : SetTime(p)
  \/ \E p \in Procs : RLock2(p)
  \/ \E p \in Procs : Check2(p)

ScanSpec == ScanInit /\ [][ScanNext]_vars

(***************************************************************************)
(* The construction of a processor: time.ParseDuration of the configured  *)
(* cache duration, and the transport.  A duration of the model is a       *)
(* time.Duration in whole milliseconds.                                    *)
(***************************************************************************)
\* 1 * time.Hour
Hour == 60 * 60 * 1000

\* unitMap of package time, a unit as the fraction num/den of a millisecond
\* (the two spellings of the microsecond with a micro sign are left out)
UnitNames == {<<"n","s">>, <<"u","s">>, <<"m","s">>, <<"s">>, <<"m">>, <<"h">>}
UnitMap ==
  [u \in UnitNames |->
     CASE u = <<"n","s">> -> [num |-> 1, den |-> 1000000]
       [] u = <<"u","s">> -> [num |-> 1, den |-> 1000]
       [] u = <<"m","s">> -> [num |-> 1, den |-> 1]
       [] u = <<"s">> -> [num |-> 1000, den |-> 1]
       [] u = <<"m">> -> [num |-> 60000, den |-> 1]
       [] u = <<"h">> -> [num |-> Hour, den |-> 1]]

IsDigit(c) == DigitVal(c) >= 0

\* the length of the longest prefix of s made of digits (leadingInt,
\* leadingFraction)
DigitsLen(s) ==
  CHOOSE k \in 0..Len(s) :
    /\ \A i \in 1..k : IsDigit(s[i])
    /\ k = Len(s) \/ ~IsDigit(s[k+1])

\* the length of the unit s starts with: the characters up to the next
\* period or digit
UnitLen(s) ==
  CHOOSE k \in 0..Len(s) :
    /\ \A i \in 1..k : ~(s[i] = "." \/ IsDigit(s[i]))
    /\ k = Len(s) \/ s[k+1] = "." \/ IsDigit(s[k+1])

\* the value of a sequence of digits, 0 for the empty one
RECURSIVE IntOf(_)
IntOf(s) == IF s = <<>> THEN 0 ELSE 10 * IntOf(SubSeq(s, 1, Len(s)-1)) + DigitVal(s[Len(s)])

RECURSIVE PowerOfTen(_)
PowerOfTen(k) == IF k = 0 THEN 1 ELSE 10 * PowerOfTen(k-1)

InvalidDuration == [ok |-> FALSE, d |-> 0]

\* the loop of time.ParseDuration over ([0-9]*(\.[0-9]*)?[a-z]+)+, d being
\* the sum of the terms read so far
RECURSIVE ParseTerms(_, _)
ParseTerms(s, d) ==
  IF s = <<>> THEN [ok |-> TRUE, d |-> d]
  ELSE IF ~(s[1] = "." \/ IsDigit(s[1])) THEN InvalidDuration
  ELSE
    LET n == DigitsLen(s)
        v == IntOf(SubSeq(s, 1, n))
        s1 == SubSeq(s, n+1, Len(s))
        dot == s1 # <<>> /\ s1[1] = "."
        s2 == IF dot THEN Tail(s1) ELSE s1
        fn == IF dot THEN DigitsLen(s2) ELSE 0
        f == IntOf(SubSeq(s2, 1, fn))
        s3 == SubSeq(s2, fn+1, Len(s2))
        un == UnitLen(s3)
        u == SubSeq(s3, 1, un)
    IN IF n = 0 /\ fn = 0 THEN InvalidDuration
       ELSE IF un = 0 THEN InvalidDuration
       ELSE IF u \notin UnitNames THEN InvalidDuration
       ELSE ParseTerms(SubSeq(s3, un+1, Len(s3)),
                       d + (v * UnitMap[u].num) \div UnitMap[u].den
                         + (f * UnitMap[u].num) \div (UnitMap[u].den * PowerOfTen(fn)))

\* time.ParseDuration(text): [-+]?([0-9]*(\.[0-9]*)?[a-z]+)+, and "0"
ParseDuration(text) ==
  LET signed == text # <<>> /\ text[1] \in {"-", "+"}
      s == IF signed THEN Tail(text) ELSE text
  IN IF s = <<"0">> THEN [ok |-> TRUE, d |-> 0]
     ELSE IF s = <<>> THEN InvalidDuration
     ELSE LET r == ParseTerms(s, 0) IN
          IF ~r.ok THEN InvalidDuration
          ELSE [ok |-> TRUE, d |-> IF text[1] = "-" THEN 0 - r.d ELSE r.d]

\* faulty variant: the error of ParseDuration is ignored
CacheTTLOfNoFallback(text) == ParseDuration(text).d

\* cacheDuration, err := time.ParseDuration(cfg.CacheDuration); one hour
\* when err != nil
CacheTTLOf(text) ==
  LET r == ParseDuration(text) IN
  IF ~r.ok THEN Hour ELSE r.d

\* the values CACHE_DURATION / --cache-duration take in the model
DurationTexts ==
  {<<"1","h">>,
   <<"2","h">>,
   <<"2","4","h">>,
   <<"3","0","m">>,
   <<"1","h","3","0","m">>,
   <<"1",".","5","h">>,
   <<"9","0","s">>,
   <<"1","5","0","0","m","s">>,
   <<"0">>,
   <<"0","s">>,
   <<"-","1","h">>,
   <<"+","2","h">>,
   <<".","5","m">>,
   <<"1",".","m">>,
   <<>>,
   <<"n","o","t","-","a","-","d","u","r","a","t","i","o","n">>,
   <<"2">>,
   <<"1","d">>,
   <<"h">>,
   <<".","s">>,
   <<"1","h","-">>,
   <<" ","1","h">>,
   <<"-">>,
   <<"1","H">>}

\* the reading of the clock when the processor is constructed, in
\* milliseconds since the zero time: later than every TTL of the model
Epoch == 2000000000

\* the one element of a set of one value
TheValue(set) == CHOOSE v \in set : TRUE

\* arg.MustParse on one field of Config: the value of the flag when the
\* command line has it, else the value of the environment variable when it
\* is set, else the default NewConfig put in the field
ParsedSetting(flag, name, default) ==
  IF osArgs[flag] # {} THEN TheValue(osArgs[flag])
  ELSE IF environ[name] # {} THEN TheValue(environ[name])
  ELSE default

\* config.NewConfig()
NewConfig ==
  [ServerPort |-> ParsedSetting("--port", "SERVER_PORT", DefaultServerPort),
   AuthToken |-> ParsedSetting("--auth-token", "AUTH_TOKEN", NoToken),
   CacheDuration |-> ParsedSetting("--cache-duration", "CACHE_DURATION", DefaultCacheDuration)]

\* the values of the variables in the environments of the model
EnvPort == "9091"
EnvServerPort == "9092"
\* the environments that set nothing but CACHE_DURATION
DurationEnvirons ==
  {[NoEnviron EXCEPT !["CACHE_DURATION"] = {text}] : text \in DurationTexts}
\* the environments that set some of PORT, SERVER_PORT and AUTH_TOKEN
ServerEnvirons ==
  {[n \in EnvNames |->
      CASE n = "PORT" -> port
        [] n = "SERVER_PORT" -> serverPort
        [] n = "AUTH_TOKEN" -> token
        [] OTHER -> {}] :
     port \in {{}, {EnvPort}}, serverPort \in {{}, {EnvServerPort}},
     token \in {{}, {TestToken}}}
\* the command lines: no flag, CMD ["--port=8080"] of the Dockerfile, and
\* --port=8080 --cache-duration=5m of the Makefile
DockerArgs == [NoArgs EXCEPT !["--port"] = {DefaultServerPort}]
MakeArgs == [DockerArgs EXCEPT !["--cache-duration"] = {<<"5","m">>}]
CommandLines == {NoArgs, DockerArgs, MakeArgs}

\* the process is started; no processor is constructed yet and main has not
\* read its configuration
ConfigInit ==
  /\ cache = EmptyMap
  /\ cacheTime = ZeroTime
  /\ cacheTTL = 0
  /\ ripeURL = "valid"
  /\ CacheDuration = <<>>
  /\ ServerPort = NoPort
  /\ \/ environ \in DurationEnvirons /\ osArgs = NoArgs
     \/ environ \in ServerEnvirons /\ osArgs \in CommandLines
  /\ httpClient = NoClient
  /\ writer = None
  /\ readers = {}
  /\ now = Epoch
  /\ callCount = 0
  /\ lastFetch = NoFetch
  /\ pc = [p \in Procs |-> "idle"]
  /\ countryCode = [p \in Procs |-> <<>>]
  /\ newCache = [p \in Procs |-> EmptyMap]
  /\ ret = NoRet
  /\ lookups = 0
  /\ failures = 0
  /\ installed = [cache |-> EmptyMap, cacheTime |-> ZeroTime]
  /\ mine = [p \in Procs |-> 0]
  /\ got = [p \in Procs |-> 0]
  /\ seen = [p \in Procs |-> "none"]
  /\ before = [p \in Procs |-> NoSnap]
  /\ atCall = [p \in Procs |-> NoSnap]
  /\ arg = [p \in Procs |-> <<>>]
  /\ waited = [p \in Procs |-> FALSE]
  /\ observed = [p \in Procs |-> "none"]
  /\ heap = InitHeap
  /\ generation = NoGeneration
  /\ AuthToken = NoToken
  /\ request = [p \in Procs |-> NoRequest]
  /\ response = NoResponse
  /\ body = NoBody
  /\ unwound = <<>>
  /\ scanner = <<>>
  /\ ipDataByCountry = EmptyMap
  /\ feed = <<>>

\* the fields a constructor sets, client being the transport it installs
Construct(client) ==
  /\ cache' = EmptyMap
  /\ cacheTime' = ZeroTime
  /\ CacheDuration' = NewConfig.CacheDuration
  /\ cacheTTL' = CacheTTLOf(NewConfig.CacheDuration)
  /\ httpClient' = client
  /\ UNCHANGED <<ripeURL, ServerPort, environ, osArgs, handler, stream, heap, generation, scanLoop, feed, mutex, now, transport, pc,
                 countryCode, newCache, ret, lookups, failures, installed, history>>

\* NewProcessor()
NewProcessor ==
  /\ httpClient = NoClient
  /\ Construct(DefaultClient)

\* NewProcessorWithClient(httpClient)
NewProcessorWithClient(client) ==
  /\ httpClient = NoClient
  /\ Construct(client)

\* main after newProcessor(): cfg := newConfig(), and the handler gets cfg
NewHandler ==
  /\ httpClient # NoClient
  /\ ServerPort = NoPort
  /\ ServerPort' = NewConfig.ServerPort
  /\ AuthToken' = NewConfig.AuthToken
  /\ UNCHANGED <<cache, cacheTime, cacheTTL, ripeURL, CacheDuration, environ, osArgs,
                 httpClient, request, response, stream, heap, generation, scanLoop, feed, mutex, now,
                 transport, pc, countryCode, newCache, ret, lookups, failures,
                 installed, history>>

\* the constructors, main, and the lookups of one goroutine on the processor
ConfigNext ==
  \/ NewProcessor
  \/ NewHandler
  \/ \E client \in GivenClients : NewProcessorWithClient(client)
  \/ \E code \in LookupCodes : Call(1, code)
  \/ RLock1(1)
  \/ Check1(1)
  \/ Lock(1)
  \/ Recheck(1)
  \/ Do(1)
  \/ Receive(1)
  \/ SetCache(1)
  \/ SetTime(1)
  \/ RLock2(1)
  \/ Check2(1)

ConfigSpec == ConfigInit /\ [][ConfigNext]_vars

(***************************************************************************)
(* The handler of GET /get in front of the processor.                      *)
(***************************************************************************)
StatusMethodNotAllowed == 405
StatusBadRequest == 400
StatusUnauthorized == 401
StatusInternalServerError == 500

\* the requests of the model
Methods == {"GET", "POST"}
Countries == {<<>>} \cup LookupCodes
AuthValues == {NoToken, TestToken, WrongToken}
Requests ==
  {Request(m, c, a) : m \in Methods, c \in Countries, a \in AuthValues}

\* Content-Type of the list, and the one http.Error sets
TextPlain == "text/plain"
TextPlainUTF8 == "text/plain; charset=utf-8"

\* http.Error(w, message, status)
HttpError(req, status, message) ==
  [status |-> status, contentType |-> TextPlainUTF8, message |-> message,
   lines |-> <<>>, body |-> <<>>, to |-> req, invoked |-> FALSE]

\* the bytes of a sequence of writes, one after the other
RECURSIVE Written(_)
Written(writes) ==
  IF Len(writes) = 0 THEN <<>> ELSE Head(writes) \o Written(Tail(writes))

\* faulty variant: the entries are written without the newline
WriteBodyNoNewline(ipList) == Written(ipList)

\* for _, ip := range ipList { w.Write([]byte(ip + "\n")) }
WriteBody(ipList) == Written([i \in 1..Len(ipList) |-> ipList[i] \o <<"\n">>])

\* faulty variant: a request without auth parameter passes the check
RejectionMissingAuthPasses(req) ==
  IF req.method # "GET"
    THEN HttpError(req, StatusMethodNotAllowed, <<"Method not allowed">>)
  ELSE IF req.country = <<>>
    THEN HttpError(req, StatusBadRequest, <<"Missing country parameter">>)
  ELSE IF AuthToken # "" /\ req.auth # "" /\ req.auth # AuthToken
    THEN HttpError(req, StatusUnauthorized, <<"Unauthorized">>)
  ELSE NoResponse

\* faulty variant: the country parameter is checked before the method
RejectionCountryFirst(req) ==
  IF req.country = <<>>
    THEN HttpError(req, StatusBadRequest, <<"Missing country parameter">>)
  ELSE IF req.method # "GET"
    THEN HttpError(req, StatusMethodNotAllowed, <<"Method not allowed">>)
  ELSE IF AuthToken # "" /\ (req.auth = "" \/ req.auth # AuthToken)
    THEN HttpError(req, StatusUnauthorized, <<"Unauthorized">>)
  ELSE NoResponse

\* the response of the checks in front of the call of the processor, or
\* NoResponse when the request passes them
Rejection(req) ==
  IF req.method # "GET"
    THEN HttpError(req, StatusMethodNotAllowed, <<"Method not allowed">>)
  ELSE IF req.country = <<>>
    THEN HttpError(req, StatusBadRequest, <<"Missing country parameter">>)
  ELSE IF AuthToken # "" /\ (req.auth = "" \/ req.auth # AuthToken)
    THEN HttpError(req, StatusUnauthorized, <<"Unauthorized">>)
  ELSE NoResponse

\* getIpListHandler up to its call of the processor: the request is
\* answered by one of the checks, or GetIPListForCountry(country) is called
HandleRequest(p, req) ==
  /\ httpClient # NoClient
  /\ pc[p] = "idle"
  /\ request[p] = NoRequest
  /\ IF Rejection(req) # NoResponse
       THEN /\ response' = Rejection(req)
            /\ UNCHANGED <<request, pc, countryCode, arg, lookups, atCall, ret>>
       ELSE /\ lookups < MaxLookups
            /\ request' = [request EXCEPT ![p] = req]
            /\ response' = response
            /\ pc' = [pc EXCEPT ![p] = "rlock1"]
            /\ countryCode' = [countryCode EXCEPT ![p] = ToUpper(req.country)]
            /\ arg' = [arg EXCEPT ![p] = req.country]
            /\ lookups' = lookups + 1
            /\ atCall' = [q \in Procs |->
                            IF q = p /\ (\A r \in Procs \ {p} : ~Running(r))
                              THEN Snap ELSE NoSnap]
            /\ ret' = [ret EXCEPT !.atCall = NoSnap]
  /\ UNCHANGED <<cache, cacheTime, config, AuthToken, stream, heap, generation, scanLoop, feed, mutex, now,
                 transport, newCache, failures, installed, mine, got, seen,
                 before, waited, observed>>

\* getIpListHandler after the return of the processor: the error as a 500,
\* or the list, one line for each entry
Respond(p) ==
  /\ pc[p] = "idle"
  /\ request[p] # NoRequest
  /\ response' =
       IF ret.kind = "err"
         THEN [status |-> StatusInternalServerError, contentType |-> TextPlainUTF8,
               message |-> <<"Error processing request">> \o ret.err,
               lines |-> <<>>, body |-> <<>>, to |-> request[p], invoked |-> TRUE]
         ELSE [status |-> StatusOK, contentType |-> TextPlain, message |-> <<>>,
               lines |-> ret.list, body |-> WriteBody(ret.list),
               to |-> request[p], invoked |-> TRUE]
  /\ request' = [request EXCEPT ![p] = NoRequest]
  /\ UNCHANGED <<cache, cacheTime, config, AuthToken, stream, heap, generation, scanLoop, feed, mutex, now,
                 transport, pc, countryCode, newCache, ret, lookups, failures,
                 installed, history>>

\* A server with a processor that was never refreshed, with or without a
\* configured token.
HandlerInit ==
  /\ cache = EmptyMap
  /\ cacheTime = ZeroTime
  /\ cacheTTL = PosTTL
  /\ ripeURL = "valid"
  /\ CacheDuration = DefaultCacheDuration
  /\ ServerPort = DefaultServerPort
  /\ environ = NoEnviron
  /\ osArgs = NoArgs
  /\ httpClient = MockClient
  /\ AuthToken \in {NoToken, TestToken}
  /\ request = [p \in Procs |-> NoRequest]
  /\ response = NoResponse
  /\ body = NoBody
  /\ unwound = <<>>
  /\ writer = None
  /\ readers = {}
  /\ now = StartTime
  /\ callCount = 0
  /\ lastFetch = NoFetch
  /\ pc = [p \in Procs |-> "idle"]
  /\ countryCode = [p \in Procs |-> <<>>]
  /\ newCache = [p \in Procs |-> EmptyMap]
  /\ ret = NoRet
  /\ lookups = 0
  /\ failures = 0
  /\ installed = [cache |-> EmptyMap, cacheTime |-> ZeroTime]
  /\ mine = [p \in Procs |-> 0]
  /\ got = [p \in Procs |-> 0]
  /\ seen = [p \in Procs |-> "none"]
  /\ before = [p \in Procs |-> NoSnap]
  /\ atCall = [p \in Procs |-> NoSnap]
  /\ arg = [p \in Procs |-> <<>>]
  /\ waited = [p \in Procs |-> FALSE]
  /\ observed = [p \in Procs |-> "none"]
  /\ heap = InitHeap
  /\ generation = NoGeneration
  /\ scanner = <<>>
  /\ ipDataByCountry = EmptyMap
  /\ feed = <<>>

\* the requests of one connection, served one after the other
HandlerNext ==
  \/ \E req \in Requests : HandleRequest(1, req)
  \/ RLock1(1)
  \/ Check1(1)
  \/ Lock(1)
  \/ Recheck(1)
  \/ Do(1)
  \/ Receive(1)
  \/ SetCache(1)
  \/ SetTime(1)
  \/ RLock2(1)
  \/ Check2(1)
  \/ Respond(1)

HandlerSpec == HandlerInit /\ [][HandlerNext]_vars

(***************************************************************************)
(* Properties of the cache processor.                                      *)
(***************************************************************************)
\* the goroutines between p.mutex.Lock() and the deferred p.mutex.Unlock()
Holders == {p \in Procs : pc[p] \in {"recheck", "do", "await", "setcache", "settime"}}

\* the goroutines between p.mutex.RLock() and p.mutex.RUnlock()
Reading == {p \in Procs : pc[p] \in {"check1", "check2"}}

\* the countries some feed has an allocation for
KnownCountries == UNION {DOMAIN Parsed[f, conv] : f \in Feeds, conv \in FloatToInt}

\* the run so far: a positive TTL has not elapsed since the start and no
\* refresh has failed
QuietRun == cacheTTL > 0 /\ failures = 0 /\ now - StartTime < cacheTTL

\* C1: lookups that run concurrently on a stale cache, with a positive TTL
\* that does not elapse during the run and a transport that answers 200 with
\* a readable body, invoke the transport exactly once: the transport is
\* never invoked twice, a lookup has returned only after the one invocation,
\* and a lookup that takes the write lock after the first refresh finds the
\* cache fresh and never reaches the call of the transport.
SingleRefresh ==
  QuietRun =>
    /\ callCount <= 1
    /\ ret.kind # "none" => callCount = 1 /\ ret.kind = "ok"
    /\ \A p \in Procs :
         /\ pc[p] = "do" => callCount = 0
         /\ (pc[p] = "recheck" /\ lastFetch.outcome = "ok") => Fresh

SingleRefreshWitness ==
  /\ QuietRun
  /\ callCount = 1
  /\ lastFetch.outcome = "ok"
  /\ \E p \in Procs : pc[p] = "recheck" /\ seen[p] = "stale"

\* C2 as stated: a goroutine about to invoke the transport does so at least
\* one TTL after the previous invocation, whatever that invocation returned.
FetchesOneTTLApart ==
  \A p \in Procs :
    (pc[p] = "do" /\ callCount >= 1) => now - lastFetch.at >= cacheTTL

\* C2: a goroutine about to invoke the transport does so at least one TTL
\* after the last refresh that succeeded completed, and so at least one TTL
\* after the previous invocation when that invocation's refresh succeeded;
\* after a failed refresh the next lookup on the stale cache invokes the
\* transport again however little time has passed.
FetchesOneTTLAfterSuccess ==
  \A p \in Procs :
    pc[p] = "do" =>
      /\ now - installed.cacheTime >= cacheTTL
      /\ lastFetch.outcome = "ok" => now - lastFetch.at >= cacheTTL

FetchAfterSuccessWitness ==
  \E p \in Procs :
    pc[p] = "do" /\ lastFetch.outcome = "ok" /\ cacheTTL > 0 /\ callCount = 1

\* C3: at most one refresh is between Lock and Unlock, it is the one the
\* mutex records as the writer from the re-check to the update of the
\* timestamp (the transport call, the parse and the swap), and while a
\* refresh holds the lock no lookup is reading cache or cacheTime.
MutualExclusion ==
  /\ Cardinality(Holders) <= 1
  /\ \A p \in Holders : writer = p
  /\ Holders # {} => Reading = {} /\ readers = {}

MutualExclusionWitness ==
  \E p, q \in Procs :
    /\ pc[p] = "await" /\ writer = p
    /\ pc[q] = "lock"
    /\ \E r \in Procs : pc[r] \in {"rlock1", "lock"} /\ r # p

\* C4: a goroutine reading under RLock sees a cache and a cacheTime that a
\* single refresh has completed (never the new mapping with the old
\* timestamp), and a list a lookup returns is the whole entry of the country
\* in such a completed pair.
AtomicSnapshot ==
  /\ \A p \in Reading : Snap = installed
  /\ ret.kind = "ok" => ret.list = ret.entry

AtomicSnapshotWitness ==
  \E p, q \in Procs :
    /\ pc[p] = "settime"
    /\ pc[q] = "rlock2"
    /\ cache # installed.cache

\* C5: a step in which downloadAndProcessData returns an error (request
\* construction, transport error, non-200 status, read error) leaves cache
\* and cacheTime as they were when the refresh took the lock, and as they
\* were at the call when the lookup ran alone; the cache is still stale.
FailedRefreshChangesNothing ==
  [][failures' > failures =>
      \E p \in Procs :
        /\ writer = p
        /\ cache' = before[p].cache
        /\ cacheTime' = before[p].cacheTime
        /\ atCall[p] # NoSnap => Snap' = atCall[p]
        /\ ~Fresh']_vars

FailedRefreshWitness ==
  /\ ret.kind = "err"
  /\ ret.refreshErr = Errorf("error reading response", <<"read error">>)
  /\ cache # EmptyMap
  /\ ~Fresh

\* C6: a lookup whose refresh failed returns no list and the error
\* "failed to download and process data" wrapping the error of the refresh,
\* also when the stale cache has an entry for the country.
RefreshErrorWrapped ==
  ret.refreshErr # NoErr =>
    /\ ret.kind = "err"
    /\ ret.list = <<>>
    /\ ret.err = <<"failed to download and process data">> \o ret.refreshErr

RefreshErrorWitness ==
  /\ ret.kind = "err"
  /\ ret.refreshErr # NoErr
  /\ ret.code \in DOMAIN cache

\* C7: a lookup that finds the cache fresh and the country present at its
\* check under RLock returns the cached list and no error, and does not
\* invoke the transport.
FreshHit ==
  ret.seen = "hit" =>
    /\ ret.kind = "ok"
    /\ ret.list = ret.entry
    /\ ret.list # <<>>
    /\ ret.mine = 0

FreshHitWitness ==
  /\ ret.seen = "hit"
  /\ ret.list # <<>>
  /\ callCount = 1

\* C8 as stated: a lookup that finds the cache fresh and the country absent
\* at its check under RLock returns an empty list and no error without
\* invoking the transport.
FreshAbsentNoNetwork ==
  ret.seen = "absent" =>
    /\ ret.kind = "ok"
    /\ ret.list = <<>>
    /\ ret.mine = 0

\* a lookup that runs alone from its call to its return
Solo == ret.kind # "none" /\ ret.atCall # NoSnap

Fields(line) == Split(line, "|")

\* a comment, a line of white space only or a line of fewer than 6 fields
Skipped(line) ==
  \/ line # <<>> /\ Head(line) = "#"
  \/ \A i \in 1..Len(line) : line[i] \in WhiteSpace
  \/ Len(Fields(line)) < 6

\* a line of registry ripencc and family ipv4
IsIPv4Record(line) ==
  /\ ~Skipped(line)
  /\ Fields(line)[1] = <<"r","i","p","e","n","c","c">>
  /\ Fields(line)[3] = <<"i","p","v","4">>

\* the count field of a line, as strconv.Atoi reads it
CountOf(line) == Atoi(Fields(line)[5])

\* a line that contributes a record
Accepted(line) == IsIPv4Record(line) /\ CountOf(line).ok

\* the country a line is recorded under
CountryOf(line) == ToUpper(Fields(line)[2])

\* the CIDR strings "<start>/<prefix>" an accepted line can be rendered as
CIDRsOf(line) ==
  {Fields(line)[4] \o <<"/">> \o MaskText(CountOf(line), conv) : conv \in FloatToInt}

\* every line of the bodies of the two models
AllLines ==
  LinePool \cup {CountLine(t) : t \in CountTexts}
  \cup UNION {{Lines[f][i] : i \in 1..Len(Lines[f])} : f \in Feeds}

\* what the loop is to do with each of these lines: whether it contributes
\* a record, under which country, and rendered as which CIDR string
LineTable ==
  {[line |-> l,
    accepted |-> Accepted(l),
    country |-> IF Accepted(l) THEN CountryOf(l) ELSE <<>>,
    cidrs |-> IF Accepted(l) THEN CIDRsOf(l) ELSE {}] : l \in AllLines}
Row(line) == CHOOSE r \in LineTable : r.line = line

\* the accepted lines of a country, in the order of the lines
AcceptedFor(lines, code) ==
  SelectSeq(lines, LAMBDA l : Row(l).accepted /\ Row(l).country = code)

\* the lines the scanner has returned so far
Scanned == SubSeq(feed, 1, Len(feed) - Len(scanner))

\* a list is the rendering of the accepted lines of a country
IsListOf(list, lines, code) ==
  LET accepted == AcceptedFor(lines, code) IN
  /\ Len(list) = Len(accepted)
  /\ \A i \in 1..Len(accepted) : list[i] \in Row(accepted[i]).cidrs

\* C11: the list a lookup returns after its refresh succeeded holds, for the
\* country looked up, one string "<start>/<prefix>" per accepted line of the
\* feed whose upper-cased country is that country, in the order of the feed,
\* duplicates kept.
ListInFeedOrder ==
  ret.kind = "ok" => IsListOf(ret.list, feed, ret.code)

ListInFeedOrderWitness ==
  /\ ret.kind = "ok"
  /\ feed = <<LineUS, LineUsLower, LineUS>>
  /\ Len(ret.list) = 3
  /\ ret.list[1] = ret.list[3]
  /\ ret.list[1] # ret.list[2]

\* a mapping is the snapshot the lines of a feed yield
IsSnapshotOf(m, lines) ==
  /\ DOMAIN m = {Row(lines[i]).country : i \in {j \in 1..Len(lines) : Row(lines[j]).accepted}}
  /\ \A c \in DOMAIN m : IsListOf(m[c], lines, c)

\* a goroutine executes p.cache = newCache
Installs == \E p \in Procs : pc[p] = "setcache" /\ pc'[p] = "settime"

\* C12: a successful refresh replaces the snapshot as a whole: the cache
\* changes only where p.cache is assigned, after the assignment it is
\* exactly the parse of the feed just fetched, so no entry of the previous
\* snapshot survives, and a lookup that returns a list returns the list of
\* the last feed fetched, which is empty for a country that feed has no
\* accepted line for.
WholeReplacement ==
  /\ [][cache' # cache => Installs]_vars
  /\ [][Installs => IsSnapshotOf(cache', feed)]_vars
  /\ [][(ret' # ret /\ ret'.kind = "ok") => IsListOf(ret'.list, feed, ret'.code)]_vars

WholeReplacementWitness ==
  /\ ret.kind = "ok"
  /\ ret.mine = 1
  /\ ret.code \in DOMAIN ret.atCall.cache
  /\ ret.list = <<>>
  /\ cache = EmptyMap
  /\ callCount = 2

\* C13: country codes are compared without regard to case: every key the
\* mappings are given is its own upper-case form, and a lookup called with
\* c returns the list of the lines whose country, upper-cased, is c
\* upper-cased.
CaseInsensitive ==
  /\ [][(cache' # cache \/ ipDataByCountry' # ipDataByCountry) =>
           \A k \in DOMAIN cache' \cup DOMAIN ipDataByCountry' : k = ToUpper(k)]_vars
  /\ [][(ret' # ret /\ ret'.kind = "ok") =>
           IsListOf(ret'.list, feed, ToUpper(ret'.arg))]_vars

CaseInsensitiveWitness ==
  /\ ret.kind = "ok"
  /\ ret.arg = CodeUs
  /\ feed = Lines[FeedA]
  /\ CodeDE \in DOMAIN cache
  /\ ret.list # <<>>
  /\ ret.list = cache[ToUpper(CodeUs)]

\* a line whose first field is not ripencc or whose third field is not ipv4
NotRipeIPv4(line) ==
  LET f == Fields(line) IN
  \/ Len(f) < 3
  \/ f[1] # <<"r","i","p","e","n","c","c">>
  \/ f[3] # <<"i","p","v","4">>

\* the scanner loop takes the line at the head of the scanner
ScansLine == scanner # <<>> /\ scanner' = Tail(scanner)

\* C14: a line whose first field is not exactly ripencc or whose third
\* field is not exactly ipv4 contributes no record: the iteration that
\* scans it leaves ipDataByCountry as it was.
RegistryFamilyFilter ==
  [][(ScansLine /\ NotRipeIPv4(Head(scanner))) =>
       ipDataByCountry' = ipDataByCountry]_vars

RegistryFamilyFilterWitness ==
  /\ feed = <<LineApnic, LineUS, LineIPv6>>
  /\ ret.kind = "ok"
  /\ DOMAIN cache = {ToUpper(CodeUs)}
  /\ Len(cache[ToUpper(CodeUs)]) = 1

\* C15: a ripencc ipv4 line whose count does not parse as an integer is
\* dropped and the loop goes on: the iteration leaves ipDataByCountry as it
\* was and stays in the loop, the accepted lines scanned before and after it
\* are all recorded, and the refresh does not fail.
BadCountSkipped ==
  /\ [][(ScansLine /\ IsIPv4Record(Head(scanner)) /\ ~CountOf(Head(scanner)).ok) =>
          (ipDataByCountry' = ipDataByCountry /\ pc' = pc)]_vars
  /\ []((\E p \in Procs : pc[p] = "scan") =>
          \A c \in DOMAIN ipDataByCountry \cup {r.country : r \in {x \in LineTable : x.accepted}} :
            Len(Entry(ipDataByCountry, c)) = Len(AcceptedFor(Scanned, c)))
  /\ [](ret.kind # "err")

BadCountSkippedWitness ==
  /\ feed = <<LineUS, LineBadCount, LineUsLower>>
  /\ ret.kind = "ok"
  /\ ret.code = ToUpper(CodeUs)
  /\ Len(ret.list) = 2
  /\ cacheTime = now

\* the records of ipDataByCountry
Records ==
  UNION {{ipDataByCountry[c][i] : i \in 1..Len(ipDataByCountry[c])} : c \in DOMAIN ipDataByCountry}

\* C16 as stated: the count of a recorded line is positive: a ripencc ipv4
\* line whose count parses as zero or as a negative integer is skipped.
CountPositive ==
  \A rec \in Records : ~rec.Count.neg /\ rec.Count.mag # Zero

\* the decimal texts of the prefix lengths of IPv4
PrefixTexts == {Itoa(n) : n \in 0..32}

\* C17 as stated: the prefix length of every recorded CIDR is in [0,32],
\* whatever the feed.
PrefixInRange ==
  \A rec \in Records : rec.CIDRMask \in PrefixTexts

\* floor(log2(n)) of a positive integer: one less than its number of bits
FloorLog2(n) == Len(Bits(n)) - 1

\* C18 as stated: the prefix of a line with a positive count is
\* 32 - floor(log2(count)): 32 - k for a count of 2^k and for a count
\* strictly between 2^k and 2^(k+1).
PrefixIsFloorLog2 ==
  \A rec \in Records :
    (~rec.Count.neg /\ rec.Count.mag # Zero) =>
      rec.CIDRMask = Itoa(32 - FloorLog2(rec.Count.mag))

\* one of the letters A..Z
IsUpperLetter(ch) == \E i \in 1..Len(UpperLetters) : UpperLetters[i] = ch

\* C19 as stated: every key of the country mapping is a 2-letter
\* upper-case code, whatever the feed.
KeysAreCountryCodes ==
  \A k \in DOMAIN cache \cup DOMAIN ipDataByCountry :
    Len(k) = 2 /\ IsUpperLetter(k[1]) /\ IsUpperLetter(k[2])

\* C20: a line that begins with '#', an empty line, a line of white space
\* only and a line of fewer than 6 fields contribute no record and do not
\* end the loop; a line of at least 6 fields with registry ripencc, family
\* ipv4 and a positive integer count adds one record, with its start
\* address, to the records of its country.
SkipsAndAccepts ==
  [][ScansLine =>
       LET line == Head(scanner)
           c == CountryOf(line)
           n == Len(Entry(ipDataByCountry, c))
       IN
       /\ Skipped(line) => (ipDataByCountry' = ipDataByCountry /\ pc' = pc)
       /\ (Accepted(line) /\ ~CountOf(line).neg /\ CountOf(line).mag # Zero) =>
            /\ c \in DOMAIN ipDataByCountry'
            /\ Len(ipDataByCountry'[c]) = n + 1
            /\ ipDataByCountry'[c][n + 1].IPStart = Fields(line)[4]]_vars

SkipsAndAcceptsWitness ==
  /\ feed = <<LineComment, LineShort, LineUS>>
  /\ ret.kind = "ok"
  /\ ret.code = ToUpper(CodeUs)
  /\ Len(ret.list) = 1

(***************************************************************************)
(* Properties of the failures of a refresh.                                *)
(***************************************************************************)
\* the error downloadAndProcessData returned is that of the given stage
IsStage(e, msg) == e # NoErr /\ Head(e) = msg

\* the lookup that returned got a response from the transport
GotResponse == ret.got # NoResp.status

\* C21 as stated: a refresh fails with the unexpected-status error exactly
\* when the status of the response is not 2xx.
StatusErrorIffNon2xx ==
  ret.kind # "none" =>
    (IsStage(ret.refreshErr, "received non-200 response")
       <=> (GotResponse /\ ret.got \notin 200..299))

\* C21: a refresh fails with the unexpected-status error exactly when the
\* status of the response is not 200; then the body is not parsed: the last
\* feed scanned, the cache and its timestamp are as before.  A response of
\* status 200 whose body is read to its end is parsed and installed.
StatusErrorIffNot200 ==
  ret.kind # "none" =>
    /\ IsStage(ret.refreshErr, "received non-200 response")
         <=> (GotResponse /\ ret.got # StatusOK)
    /\ (Solo /\ IsStage(ret.refreshErr, "received non-200 response")) =>
         (Snap = ret.atCall /\ IsSnapshotOf(cache, feed))
    /\ (Solo /\ ret.got = StatusOK /\ ret.kind = "ok") =>
         (IsSnapshotOf(cache, feed) /\ Snap = installed /\ lastFetch.outcome = "ok")

StatusErrorWitness ==
  /\ Solo
  /\ ret.got = 204
  /\ ret.kind = "err"
  /\ IsStage(ret.refreshErr, "received non-200 response")
  /\ cache # EmptyMap

\* C22: when reading the body fails, after any number of lines, the refresh
\* returns the read error and nothing of what was scanned is kept: the
\* lookup returns no list, the cache, its timestamp and the last completed
\* snapshot are as before the refresh, and no goroutine holds a newCache.
NoPartialResults ==
  /\ [](IsStage(ret.refreshErr, "error reading response") =>
          /\ ret.kind = "err"
          /\ ret.list = <<>>
          /\ ret.got = StatusOK
          /\ Solo => Snap = ret.atCall)
  /\ [][(failures' > failures /\ IsStage(ret'.refreshErr, "error reading response")) =>
          /\ cache' = cache
          /\ cacheTime' = cacheTime
          /\ installed' = installed
          /\ \A p \in Procs : newCache'[p] = EmptyMap
          /\ ipDataByCountry' = EmptyMap]_vars

NoPartialResultsWitness ==
  /\ IsStage(ret.refreshErr, "error reading response")
  /\ Solo
  /\ ret.atCall.cache = EmptyMap
  /\ cache = EmptyMap
  /\ callCount = 1

\* the messages of the four stages of a refresh
StageMessages ==
  {"failed to create request", "failed to download data",
   "received non-200 response", "error reading response"}

\* C23: every failed lookup carries one error that names the stage that
\* failed: the request construction (no transport call), the transport (a
\* call without a response), the status (a response that is not 200) or
\* the reading of the body (a 200 response); the error of the refresh
\* starts with exactly one of the four messages, holds none of them
\* further down its chain, and the lookup wraps it once.
OneStageError ==
  ret.kind = "err" =>
    LET e == ret.refreshErr IN
    /\ e # NoErr
    /\ Head(e) \in StageMessages
    /\ \A i \in 2..Len(e) : e[i] \notin StageMessages
    /\ Head(e) = "failed to create request" <=> ret.mine = 0
    /\ Head(e) = "failed to download data" <=> (ret.mine = 1 /\ ~GotResponse)
    /\ Head(e) = "received non-200 response" <=> (GotResponse /\ ret.got # StatusOK)
    /\ Head(e) = "error reading response" <=> ret.got = StatusOK
    /\ ret.err = <<"failed to download and process data">> \o e
    /\ "failed to download and process data" \notin StageMessages

OneStageErrorWitness ==
  /\ ret.kind = "err"
  /\ Head(ret.refreshErr) = "failed to create request"
  /\ ret.mine = 0
  /\ failures = 2

\* the lookup of p, which ran alone and was called after a lookup that
\* failed, returns
RetryReturns(p) ==
  /\ pc[p] # "idle"
  /\ pc'[p] = "idle"
  /\ atCall[p] # NoSnap
  /\ ret.kind = "err"

TransportKeepsFailing ==
  /\ ripeURL = "valid"
  /\ cacheTime = ZeroTime
  /\ \A p \in Procs : pc[p] \notin {"setcache", "settime"}

Awaiting == {p \in Procs : pc[p] = "await"}

\* C25: while the transport keeps failing, every lookup finds the cache
\* stale under the write lock and makes its own transport call, one call
\* at a time: N returned lookups made exactly N calls, and each returned
\* the error made of the answer to its own call.
SerializedRetries ==
  /\ [](TransportKeepsFailing =>
          /\ Cardinality(Awaiting) <= 1
          /\ \A p \in Awaiting : writer = p /\ mine[p] = 1 /\ seen[p] = "stale"
          /\ callCount = failures + Cardinality(Awaiting)
          /\ (\A p \in Procs : pc[p] = "idle") =>
                (callCount = lookups /\ failures = lookups)
          /\ ret.kind # "none" =>
                /\ ret.kind = "err"
                /\ ret.mine = 1
                /\ ret.seen = "stale"
                /\ ret.err = Errorf("failed to download and process data", ret.refreshErr))
  /\ [][(TransportKeepsFailing /\ failures' = failures + 1) =>
          \E p \in Awaiting :
            /\ writer = p
            /\ pc'[p] = "idle"
            /\ callCount' = callCount
            /\ ret'.mine = 1
            /\ \E r \in Answers(now - lastFetch.at), conv \in FloatToInt :
                 /\ ret'.refreshErr = Process(r, conv).err
                 /\ ret'.got = r.status]_vars

SerializedRetriesWitness ==
  /\ TransportKeepsFailing
  /\ \A p \in Procs : pc[p] = "idle"
  /\ lookups = NumProcs
  /\ failures = NumProcs
  /\ callCount = NumProcs
  /\ ret.kind = "err"
  /\ ret.mine = 1
  /\ ret.atCall = NoSnap

\* the refresh of the lookup that holds the write lock fails by timeout
TimesOut == failures' = failures + 1 /\ TimedOut(ret'.refreshErr)

\* C26 as stated: a lookup that was blocked on the write lock while a
\* refresh timed out returns an error.
WaitersReturnError == ret.waited => ret.kind = "err"

\* C26: a refresh that times out returns its error and releases the write
\* lock with the snapshot untouched, so the lookups blocked on the lock can
\* go on; each of them re-checks the cache under the lock and, unless
\* another lookup has refreshed it meanwhile, makes its own transport call:
\* it returns an error exactly when its own attempt fails.
TimeoutUnblocksWaiters ==
  /\ [][TimesOut =>
          /\ writer # None
          /\ writer' = None
          /\ pc[writer] = "await"
          /\ pc'[writer] = "idle"
          /\ now - lastFetch.at >= DownloadTimeout
          /\ ret'.kind = "err"
          /\ cache' = cache
          /\ cacheTime' = cacheTime
          /\ \A q \in Procs : pc[q] = "lock" => (pc'[q] = "lock" /\ waited'[q])]_vars
  /\ [](ret.waited =>
          /\ ret.mine <= 1
          /\ ret.mine = 0 => (ret.kind = "ok" /\ callCount >= 2)
          /\ ret.kind = "err" <=> ret.refreshErr # NoErr
          /\ ret.mine = 1 =>
               (ret.kind = "err" <=>
                  (ret.got # StatusOK
                     \/ IsStage(ret.refreshErr, "error reading response"))))

TimeoutUnblocksWaitersWitness ==
  /\ ret.waited
  /\ ret.kind = "ok"
  /\ ret.mine = 1
  /\ failures = 1
  /\ callCount = 2
  /\ ret.list # <<>>

\* the step p.cacheTime = time.Now() of a refresh
SetsTime == \E p \in Procs : pc[p] = "settime" /\ pc'[p] = "rlock2"

\* C27 as stated: each successful refresh sets cacheTime to a value
\* strictly greater than its previous value.
CacheTimeStrictlyIncreases ==
  [][SetsTime => cacheTime' > cacheTime]_vars

\* C27: cacheTime changes only in the last step of a successful refresh,
\* which sets it to the reading of the clock: a value never less than the
\* previous one, and strictly greater when the TTL is positive or when it
\* is the first refresh.
CacheTimeMonotonic ==
  [][/\ cacheTime' # cacheTime =>
          /\ SetsTime
          /\ writer # None
          /\ pc[writer] = "settime"
          /\ got[writer] = StatusOK
          /\ lastFetch'.outcome = "ok"
          /\ failures' = failures
     /\ failures' > failures => cacheTime' = cacheTime
     /\ SetsTime =>
          /\ cacheTime' = now
          /\ cacheTime' >= cacheTime
          /\ (cacheTTL > 0 \/ cacheTime = ZeroTime) => cacheTime' > cacheTime]_vars

CacheTimeMonotonicWitness ==
  /\ cacheTTL = PosTTL
  /\ \A p \in Procs : pc[p] = "idle"
  /\ lookups = 2
  /\ callCount = 2
  /\ failures = 0
  /\ cacheTime = StartTime + PosTTL
  /\ installed.cacheTime = cacheTime

\* C28: a lookup that found the cache fresh at its check under the read
\* lock, with the country in the snapshot or not, never holds the write
\* lock and never waits for it.
FreshLookupsShareOnly ==
  \A p \in Procs :
    seen[p] \in {"hit", "absent"} => (writer # p /\ pc[p] # "lock")

\* what time.ParseDuration makes of the texts of the model, in milliseconds,
\* and one hour for the texts it rejects
ExpectedTTL ==
  {<<<<"1","h">>, 3600000>>,
   <<<<"2","h">>, 7200000>>,
   <<<<"2","4","h">>, 86400000>>,
   <<<<"3","0","m">>, 1800000>>,
   <<<<"5","m">>, 300000>>,
   <<<<"1","h","3","0","m">>, 5400000>>,
   <<<<"1",".","5","h">>, 5400000>>,
   <<<<"9","0","s">>, 90000>>,
   <<<<"1","5","0","0","m","s">>, 1500>>,
   <<<<"0">>, 0>>,
   <<<<"0","s">>, 0>>,
   <<<<"-","1","h">>, -3600000>>,
   <<<<"+","2","h">>, 7200000>>,
   <<<<".","5","m">>, 30000>>,
   <<<<"1",".","m">>, 60000>>,
   <<<<>>, Hour>>,
   <<<<"n","o","t","-","a","-","d","u","r","a","t","i","o","n">>, Hour>>,
   <<<<"2">>, Hour>>,
   <<<<"1","d">>, Hour>>,
   <<<<"h">>, Hour>>,
   <<<<".","s">>, Hour>>,
   <<<<"1","h","-">>, Hour>>,
   <<<<" ","1","h">>, Hour>>,
   <<<<"-">>, Hour>>,
   <<<<"1","H">>, Hour>>}

\* C29: a constructed processor has the TTL its configured cache duration
\* parses to ("2h" gives two hours) and exactly one hour when the text is
\* no duration; the constructors never change it afterwards, and every
\* call of Do goes to the transport the constructor was given.
TTLConfigured ==
  /\ [](httpClient # NoClient =>
          /\ <<CacheDuration, cacheTTL>> \in ExpectedTTL
          /\ ParseDuration(CacheDuration).ok => cacheTTL = ParseDuration(CacheDuration).d
          /\ ~ParseDuration(CacheDuration).ok => cacheTTL = Hour
          /\ CacheDuration = <<"2","h">> => cacheTTL = 2 * Hour
          /\ lastFetch.outcome # "none" => lastFetch.by = httpClient)
  /\ [][httpClient # NoClient =>
          (httpClient' = httpClient /\ cacheTTL' = cacheTTL)]_vars
  /\ [][callCount' > callCount =>
          (httpClient # NoClient /\ lastFetch'.by = httpClient)]_vars
  /\ [][\A client \in GivenClients :
          (httpClient = NoClient /\ httpClient' = client) =>
             cacheTTL' = CacheTTLOf(CacheDuration')]_vars

TTLConfiguredWitness ==
  /\ httpClient = OtherClient
  /\ CacheDuration = <<"2","h">>
  /\ cacheTTL = 2 * Hour
  /\ callCount = 1
  /\ lastFetch.by = OtherClient
  /\ ret.kind = "ok"

\* the latest response answers a request that fails the authentication of
\* a server with a token
Unauthenticated ==
  /\ response # NoResponse
  /\ AuthToken # NoToken
  /\ response.to.auth # AuthToken

\* C30 as stated: with a token configured, a GET request whose auth
\* parameter is missing or differs from the token gets 401.
UnauthenticatedGets401 ==
  (Unauthenticated /\ response.to.method = "GET") =>
     response.status = StatusUnauthorized

\* C30: with a token configured, a GET request that names a country and
\* whose auth parameter is missing or differs from the token gets 401; no
\* request that fails the authentication has the processor invoked for it
\* or gets a line of CIDR data, and no lookup starts for one.  With an
\* empty token the auth parameter plays no part: every GET request that
\* names a country has the processor invoked and gets its answer.
AuthGate ==
  /\ [](Unauthenticated =>
          /\ ~response.invoked
          /\ response.lines = <<>>
          /\ response.status \in
               {StatusUnauthorized, StatusBadRequest, StatusMethodNotAllowed}
          /\ (response.to.method = "GET" /\ response.to.country # <<>>) =>
               (response.status = StatusUnauthorized
                  /\ response.message = <<"Unauthorized">>))
  /\ [](\A p \in Procs :
          request[p] # NoRequest =>
            (AuthToken = NoToken \/ request[p].auth = AuthToken))
  /\ [][lookups' > lookups =>
          \E p \in Procs :
            /\ request'[p] # NoRequest
            /\ request[p] = NoRequest
            /\ AuthToken = NoToken \/ request'[p].auth = AuthToken]_vars
  /\ []((response # NoResponse /\ AuthToken = NoToken
            /\ response.to.method = "GET" /\ response.to.country # <<>>) =>
          /\ response.invoked
          /\ response.status \in {StatusOK, StatusInternalServerError})

AuthGateWitness ==
  /\ Unauthenticated
  /\ response.to = Request("GET", CodeUs, WrongToken)
  /\ response.status = StatusUnauthorized
  /\ cache # EmptyMap
  /\ Present(ToUpper(CodeUs))

(***************************************************************************)
(* Properties of the handler's responses.                                  *)
(***************************************************************************)
\* goroutine p writes its response in this step
Responds(p) == request[p] # NoRequest /\ request'[p] = NoRequest

\* the number of bytes of the entries of a list
RECURSIVE TotalLen(_)
TotalLen(list) == IF Len(list) = 0 THEN 0 ELSE Len(Head(list)) + TotalLen(Tail(list))

\* C31: for a request that passes the checks of the handler and a lookup
\* that returns the list L without error, the response has status 200 and
\* Content-Type text/plain, and its body is the entries of L in order, each
\* followed by a newline: cut at its newlines the body gives back L and an
\* empty rest, and it has one byte more than each entry has.  An empty L
\* gives status 200 and an empty body.
RendersList ==
  [][\A p \in Procs :
       (Responds(p) /\ ret.kind = "ok") =>
          /\ Rejection(request[p]) = NoResponse
          /\ response'.to = request[p]
          /\ response'.status = StatusOK
          /\ response'.contentType = "text/plain"
          /\ Split(response'.body, "\n") = ret.list \o << <<>> >>
          /\ Len(response'.body) = TotalLen(ret.list) + Len(ret.list)
          /\ ret.list = <<>> => response'.body = <<>>]_vars

RendersListWitness ==
  /\ response.status = StatusOK
  /\ Len(response.lines) = 2
  /\ response.lines[1] # response.lines[2]
  /\ response.lines = cache[ToUpper(CodeUs)]
  /\ Split(response.body, "\n") = <<response.lines[1], response.lines[2], <<>> >>

\* an empty list was rendered
RendersEmptyList ==
  /\ response.status = StatusOK
  /\ response.invoked
  /\ response.lines = <<>>
  /\ response.body = <<>>
  /\ response.contentType = "text/plain"

\* the status the first failing check of /get gives a request, 0 when the
\* request passes the three checks
CheckStatus(req) ==
  CASE req.method # "GET" -> StatusMethodNotAllowed
    [] req.method = "GET" /\ req.country = <<>> -> StatusBadRequest
    [] req.method = "GET" /\ req.country # <<>>
         /\ AuthToken # NoToken /\ req.auth # AuthToken -> StatusUnauthorized
    [] OTHER -> 0

\* C32: the checks of /get in their order: a non-GET method gets 405;
\* otherwise a missing or empty country parameter gets 400; otherwise a
\* failed auth check gets 401; none of these has the processor invoked or a
\* line in the body.  A request that passes the three checks has the
\* processor invoked, and a lookup error gets 500 with a non-empty message
\* and no CIDR line in the body.  A lookup starts only for a request that
\* passes the three checks, one lookup at a time, and none starts for a
\* goroutine whose request is still unanswered.
ValidationOrder ==
  /\ [](response # NoResponse =>
          IF CheckStatus(response.to) # 0
            THEN /\ response.status = CheckStatus(response.to)
                 /\ ~response.invoked
                 /\ response.message # <<>>
                 /\ response.lines = <<>> /\ response.body = <<>>
            ELSE /\ response.invoked
                 /\ response.status \in {StatusOK, StatusInternalServerError}
                 /\ response.status = StatusInternalServerError =>
                      /\ Len(response.message) >= 2
                      /\ response.lines = <<>> /\ response.body = <<>>)
  /\ [][\A p \in Procs :
          (Responds(p) /\ ret.kind = "err") =>
             /\ response'.to = request[p]
             /\ response'.status = StatusInternalServerError
             /\ response'.message = <<"Error processing request">> \o ret.err
             /\ ret.err # NoErr]_vars
  /\ [][lookups' # lookups =>
          /\ lookups' = lookups + 1
          /\ \E p \in Procs :
               /\ request[p] = NoRequest
               /\ request'[p] # NoRequest
               /\ CheckStatus(request'[p]) = 0
               /\ pc[p] = "idle"]_vars
  /\ [](\A p \in Procs : request[p] = NoRequest => pc[p] = "idle")

ValidationOrderWitness ==
  /\ AuthToken = TestToken
  /\ response.to = Request("GET", CodeUs, TestToken)
  /\ response.status = StatusInternalServerError
  /\ response.invoked
  /\ Present(ToUpper(CodeUs))
  /\ lookups = 2

(***************************************************************************)
(* Properties of the configuration.                                        *)
(***************************************************************************)
\* the value of an environment variable, or a default when it is not set
EnvOr(name, default) ==
  IF environ[name] # {} THEN TheValue(environ[name]) ELSE default

\* C33 as stated: started without flags, the server takes its port from
\* the environment variable PORT (default 8080), the auth token from
\* AUTH_TOKEN (default empty) and the cache duration from CACHE_DURATION
\* (default 1h); a set variable overrides the default.
ConfiguredByEnvironment ==
  (ServerPort # NoPort /\ osArgs = NoArgs) =>
     /\ ServerPort = EnvOr("PORT", "8080")
     /\ AuthToken = EnvOr("AUTH_TOKEN", "")
     /\ CacheDuration = EnvOr("CACHE_DURATION", <<"1","h">>)

(***************************************************************************)
(* Properties of the life of the cache.                                    *)
(***************************************************************************)
\* no refresh has completed since the construction of the processor
NeverRefreshed == installed.cacheTime = ZeroTime

NoLookupInProgress == \A p \in Procs : pc[p] = "idle"

\* C35: the transport is invoked only by a lookup that holds the exclusive
\* lock and came to the call from its check under that lock, which found
\* the cache stale (and the cache is still stale at the call), one call at
\* a time; with no lookup in progress a step changes neither the call
\* count nor the cache nor its time, however far the clock advances.
DemandDriven ==
  /\ [][callCount' # callCount =>
          /\ callCount' = callCount + 1
          /\ \E p \in Procs :
               /\ pc[p] = "do"
               /\ writer = p /\ writer' = p
               /\ readers = {}
               /\ ~Fresh
               /\ mine'[p] = mine[p] + 1]_vars
  /\ [][\A p \in Procs :
          (pc'[p] = "do" /\ pc[p] # "do") =>
             (pc[p] = "recheck" /\ writer = p /\ ~Fresh)]_vars
  /\ [][NoLookupInProgress =>
          /\ callCount' = callCount
          /\ lastFetch' = lastFetch
          /\ cache' = cache
          /\ cacheTime' = cacheTime]_vars
  /\ [](NoLookupInProgress => lastFetch.outcome # "pending" /\ writer = None)

DemandDrivenWitness ==
  /\ NoLookupInProgress
  /\ cacheTTL > 0
  /\ cache # EmptyMap
  /\ ~Fresh
  /\ now > cacheTime
  /\ callCount = 1

(***************************************************************************)
(* Properties of the response stream.                                      *)
(***************************************************************************)
\* the refresh of goroutine p returns in this step
RefreshReturns(p) == writer = p /\ writer' = None

\* position of a deferred call in what the latest return ran, 0 if absent
Ran(call) ==
  IF \E i \in 1..Len(unwound) : unwound[i] = call
    THEN CHOOSE i \in 1..Len(unwound) : unwound[i] = call
    ELSE 0

\* C36: on every path on which Do returned a response (status 200 read to
\* the end, another status, a read error) the body is closed exactly once
\* when the refresh returns, before the write lock is released: no body is
\* open while the lock is free, the return ran Close once and ahead of
\* Unlock, and a body is never closed twice.  When Do returned an error
\* there is no body and the return ran no Close.
BodyClosedOnce ==
  /\ [](body.closes <= 1)
  /\ [](body.state = "open" =>
          /\ writer # None
          /\ pc[writer] \in {"setcache", "settime", "scan"})
  /\ [](writer = None => body.state \in {"none", "closed"})
  /\ [][\A p \in Procs :
          (RefreshReturns(p) /\ pc[p] \in {"await", "settime"}) =>
             IF lastFetch'.outcome = "failed" /\ ret'.got = 0
               THEN /\ body' = NoBody
                    /\ unwound' = <<DeferCancel, DeferUnlock>>
               ELSE /\ body'.state = "closed" /\ body'.closes = 1
                    /\ unwound' = <<DeferClose, DeferCancel, DeferUnlock>>]_vars
  /\ [][\A p \in Procs :
          (RefreshReturns(p) /\ pc[p] = "recheck") =>
             /\ body' = body
             /\ Len(unwound') <= 2
             /\ unwound'[Len(unwound')] = DeferUnlock
             /\ \A i \in 1..Len(unwound') : unwound'[i] # DeferClose]_vars
  /\ [](unwound # <<>> =>
          /\ unwound[Len(unwound)] = DeferUnlock
          /\ Ran(DeferClose) \in {0, 1})

BodyClosedOnceWitness ==
  /\ body = [state |-> "closed", closes |-> 1]
  /\ unwound = <<DeferClose, DeferCancel, DeferUnlock>>
  /\ writer = None
  /\ ret.kind = "err"
  /\ IsStage(ret.refreshErr, "error reading response")

(***************************************************************************)
(* Termination of the lookups.                                             *)
(***************************************************************************)
\* how far a lookup has come in GetIPListForCountry
Rank(label) ==
  CASE label = "idle" -> 0
    [] label = "rlock1" -> 1
    [] label = "check1" -> 2
    [] label = "lock" -> 3
    [] label = "recheck" -> 4
    [] label = "do" -> 5
    [] label = "await" -> 6
    [] label = "setcache" -> 7
    [] label = "settime" -> 8
    [] label = "rlock2" -> 9
    [] label = "check2" -> 10

\* C37: provided every call of the transport returns, every lookup
\* eventually returns, whatever the interleaving: while a lookup is in
\* progress some lookup can take a step, every step of a lookup takes it
\* forward, and a lookup that was called returns.  A lookup that has
\* returned holds no lock (on the error paths too), a goroutine holds the
\* write lock only inside the refresh and the read lock only at its two
\* checks, and no lookup waits for the write lock while it holds the read
\* lock.
LookupsTerminate ==
  /\ []((\E p \in Procs : Running(p)) => ENABLED Progress)
  /\ [][\A p \in Procs :
          pc'[p] # pc[p] => (pc'[p] = "idle" \/ Rank(pc'[p]) > Rank(pc[p]))]_vars
  /\ \A p \in Procs : (Running(p) ~> ~Running(p))
  /\ [](\A p \in Procs :
          /\ ~Running(p) => (p \notin readers /\ writer # p)
          /\ writer = p <=> p \in Holders
          /\ p \in readers <=> p \in Reading
          /\ pc[p] = "lock" => p \notin readers)
  /\ [](writer # None => readers = {})

LookupsTerminateWitness ==
  /\ ret.kind = "err"
  /\ failures >= 1
  /\ writer = None
  /\ readers = {}
  /\ \E p \in Procs : pc[p] = "lock" /\ seen[p] = "stale"

\* C38: a lookup that returns a list without an error found the cache
\* fresh under the read lock (ret.seen is "hit" or "absent"), or found it
\* fresh under the write lock (ret.observed is "fresh"), or ran the one
\* refresh that installed a snapshot (ret.observed is "installed", with one
\* transport call answered 200)
ServedFresh ==
  ret.kind = "ok" =>
    \/ ret.seen \in {"hit", "absent"}
    \/ ret.observed = "fresh"
    \/ ret.observed = "installed" /\ ret.mine = 1 /\ ret.got = 200

\* a lookup that found the cache stale under the read lock, waited for the
\* write lock, found the cache fresh there and returned a list without a
\* transport call of its own
ServedFreshWitness ==
  /\ ret.kind = "ok"
  /\ ret.seen = "stale"
  /\ ret.observed = "fresh"
  /\ ret.mine = 0
  /\ ret.list # <<>>

\* C39: cache and cacheTime change only in the assignments of a refresh
\* that holds the write lock after its one transport call was answered
\* 200; the map p.cache refers to after such an assignment is a new object,
\* neither the map it replaces nor the map that holds the list the last
\* lookup returned; no step changes the contents of a map that exists
\* before and after it; so the list the last lookup returned still has, in
\* the map that holds it, the contents it was returned with
OldResultsIntact ==
  /\ [](/\ cache = heap.objects[heap.cache]
        /\ (ret.at # NilAddr) =>
             /\ ret.at \in DOMAIN heap.objects
             /\ Entry(heap.objects[ret.at], ret.code) = ret.list)
  /\ [][/\ (cache' # cache \/ cacheTime' # cacheTime) =>
             \E p \in Procs :
               /\ writer = p
               /\ pc[p] \in {"setcache", "settime"}
               /\ mine[p] = 1
               /\ got[p] = StatusOK
        /\ (heap'.cache # heap.cache) =>
             /\ heap'.cache \notin {heap.cache, ret.at, NilAddr}
             /\ \E p \in Procs : pc[p] = "setcache" /\ heap'.cache = heap.local[p]
        /\ \A a \in DOMAIN heap.objects \cap DOMAIN heap'.objects :
             heap'.objects[a] = heap.objects[a]]_vars

\* a lookup returned a non-empty list of the cache, and a later refresh has
\* replaced the cache by a map in which the country has another list
OldResultsIntactWitness ==
  /\ ret.kind = "ok"
  /\ ret.list # <<>>
  /\ ret.at \notin {NilAddr, heap.cache}
  /\ Entry(cache, ret.code) # ret.list
  /\ \E p \in Procs : pc[p] \in {"settime", "rlock2", "check2"} /\ mine[p] = 1

====
